---- MODULE Spec2Model ----
(***************************************************************************)
(* Model of the preview-highlighting scripts of the lab manual:            *)
(*   .github/scripts/highlight-html-changes.py  (class HTMLDiffer, main)   *)
(*   .github/scripts/inject-preview-metadata.py (inject_preview_metadata)  *)
(*                                                                         *)
(* Text.  A Python str is modelled as a sequence of characters, each a     *)
(* one-character TLA+ string:  "<p>a b</p>"  is                            *)
(*   << "<","p",">","a"," ","b","<","/","p",">" >>.                        *)
(* The fixed pieces of markup that the program emits (the <mark> tags, the *)
(* notice block) are kept as single elements holding the whole literal;    *)
(* the input documents of the model never spell a part of one of these     *)
(* literals character by character. Where the program searches a text that *)
(* holds them, the model looks into them: TagEnd names the pieces that end *)
(* with ">" for the patterns of inject_change_notice, and Spelled gives    *)
(* the page character by character as main() reads it again for the table  *)
(* of contents.                                                            *)
(* A character that a TLA+ string cannot hold is written as Python writes  *)
(* it in a string literal, with lower-case hexadecimal digits: U+000B is   *)
(* the string of the four characters \x0b, U+00A0 is \xa0, U+2028 is       *)
(* \u2028, U+1F50D is \U0001f50d.                                          *)
(* Concatenating the elements of a sequence gives the Python string.       *)
(* Positions follow Python: 0-based, slices half-open.                     *)
(***************************************************************************)
EXTENDS Integers, Sequences, FiniteSets, TLC

\* ------------------------------------------------------------------------
\* Python str primitives used by the scripts
\* ------------------------------------------------------------------------

Range(s) == { s[i] : i \in DOMAIN s }

MinOf(S) == CHOOSE x \in S : \A y \in S : x <= y

MaxOf(S) == CHOOSE x \in S : \A y \in S : x >= y

\* s[lo:hi]
Slice(s, lo, hi) == SubSeq(s, lo + 1, hi)

\* s.startswith(lit, i)
StartsAt(s, lit, i) ==
    /\ i >= 0
    /\ i + Len(lit) <= Len(s)
    /\ \A k \in 1..Len(lit) : s[i + k] = lit[k]

\* s.find(lit, from): the least position >= from where lit occurs, or -1
Find(s, lit, from) ==
    LET hits == { i \in from..(Len(s) - Len(lit)) : StartsAt(s, lit, i) }
    IN  IF hits = {} THEN -1 ELSE MinOf(hits)

\* the characters \s matches in a str pattern, which are those of
\* str.isspace and those str.strip removes
Whitespace ==
    { "\t", "\n", "\\x0b", "\f", "\r", "\\x1c", "\\x1d", "\\x1e", "\\x1f", " ",
      "\\x85", "\\xa0", "\\u1680", "\\u2000", "\\u2001", "\\u2002", "\\u2003",
      "\\u2004", "\\u2005", "\\u2006", "\\u2007", "\\u2008", "\\u2009", "\\u200a",
      "\\u2028", "\\u2029", "\\u202f", "\\u205f", "\\u3000" }

IsSpace(c) == c \in Whitespace

\* the characters U+0020 to U+007E
Printable ==
    << " ", "!", "\"", "#", "$", "%", "&", "'", "(", ")", "*", "+", ",", "-",
       ".", "/", "0", "1", "2", "3", "4", "5", "6", "7", "8", "9", ":", ";",
       "<", "=", ">", "?", "@", "A", "B", "C", "D", "E", "F", "G", "H", "I",
       "J", "K", "L", "M", "N", "O", "P", "Q", "R", "S", "T", "U", "V", "W",
       "X", "Y", "Z", "[", "\\", "]", "^", "_", "\\x60", "a", "b", "c", "d",
       "e", "f", "g", "h", "i", "j", "k", "l", "m", "n", "o", "p", "q", "r",
       "s", "t", "u", "v", "w", "x", "y", "z", "{", "|", "}", "~" >>

HexDigits ==
    << "0", "1", "2", "3", "4", "5", "6", "7", "8", "9", "a", "b", "c", "d", "e", "f" >>

RECURSIVE Hex(_, _)
\* n in w hexadecimal digits
Hex(n, w) == IF w = 0 THEN "" ELSE Hex(n \div 16, w - 1) \o HexDigits[(n % 16) + 1]

\* chr(n)
Chr(n) ==
    IF n = 9 THEN "\t" ELSE IF n = 10 THEN "\n" ELSE IF n = 12 THEN "\f"
    ELSE IF n = 13 THEN "\r"
    ELSE IF n >= 32 /\ n <= 126 THEN Printable[n - 31]
    ELSE IF n < 256 THEN "\\x" \o Hex(n, 2)
    ELSE IF n < 65536 THEN "\\u" \o Hex(n, 4)
    ELSE "\\U" \o Hex(n, 8)

RECURSIVE Join(_)
\* the characters of s as one string
Join(s) == IF s = << >> THEN "" ELSE Head(s) \o Join(Tail(s))

RECURSIVE Concat(_)
\* ''.join(parts)
Concat(parts) ==
    IF parts = << >> THEN << >> ELSE Head(parts) \o Concat(Tail(parts))

RECURSIVE LStrip(_)
LStrip(s) == IF s # << >> /\ IsSpace(Head(s)) THEN LStrip(Tail(s)) ELSE s

RECURSIVE RStrip(_)
RStrip(s) ==
    IF s # << >> /\ IsSpace(s[Len(s)]) THEN RStrip(SubSeq(s, 1, Len(s) - 1)) ELSE s

\* s.strip()
Strip(s) == RStrip(LStrip(s))

\* ------------------------------------------------------------------------
\* difflib.SequenceMatcher(None, a, b), as used at lines 72, 146 and 202
\* ------------------------------------------------------------------------

\* autojunk: for len(b) >= 200, elements occurring more than len(b)//100 + 1
\* times are "popular" and do not start a match
AutojunkMinLen == 200

Popular(b) ==
    IF Len(b) >= AutojunkMinLen
    THEN { x \in Range(b) :
             Cardinality({ j \in DOMAIN b : b[j] = x }) > (Len(b) \div 100) + 1 }
    ELSE {}

\* j2len: length of the run of equal, non-popular elements that ends at a[i], b[j]
RunLen(a, b, pop, alo, blo, i, j) ==
    LET ok(d) == a[i - d + 1] = b[j - d + 1] /\ b[j - d + 1] \notin pop
        room == IF i - alo < j - blo THEN i - alo + 1 ELSE j - blo + 1
    IN  MaxOf({ n \in 0..room : \A d \in 0..(n - 1) : ok(d) })

\* how far a block at (i, j) extends backwards over equal elements
ExtendBack(a, b, alo, blo, i, j) ==
    LET room == IF i - alo < j - blo THEN i - alo ELSE j - blo
    IN  MaxOf({ n \in 0..room : \A d \in 1..n : a[i - d + 1] = b[j - d + 1] })

\* how far a block ending before (i, j) extends forwards over equal elements
ExtendFwd(a, b, ahi, bhi, i, j) ==
    LET room == IF ahi - i < bhi - j THEN ahi - i ELSE bhi - j
    IN  MaxOf({ n \in 0..room : \A d \in 1..n : a[i + d] = b[j + d] })

\* the block of k matching elements found at (i, j), extended over the equal
\* elements before and after it
Extended(i, j, k, back, fwd) == [i |-> i - back, j |-> j - back, k |-> k + back + fwd]

\* the first of the run ends: the one earliest in a, then earliest in b
EarliestEnd(ends) ==
    CHOOSE c \in ends :
        \A d \in ends : c[1] < d[1] \/ (c[1] = d[1] /\ c[2] <= d[2])

\* the block of length kmax that ends at a[e[1]], b[e[2]]
BlockEndingAt(a, b, alo, ahi, blo, bhi, kmax, e) ==
    Extended(e[1] - kmax + 1, e[2] - kmax + 1, kmax,
             ExtendBack(a, b, alo, blo, e[1] - kmax + 1, e[2] - kmax + 1),
             ExtendFwd(a, b, ahi, bhi, e[1] + 1, e[2] + 1))

\* the longest block among the runs that end at one of cells
LongestOf(a, b, pop, alo, ahi, blo, bhi, cells, kmax) ==
    BlockEndingAt(a, b, alo, ahi, blo, bhi, kmax,
                  EarliestEnd({ c \in cells :
                                  RunLen(a, b, pop, alo, blo, c[1], c[2]) = kmax }))

\* cells: the pairs of equal, non-popular elements of a[alo:ahi], b[blo:bhi]
LongestAmong(a, b, pop, alo, ahi, blo, bhi, cells) ==
    IF cells = {}
    THEN Extended(alo, blo, 0, 0, ExtendFwd(a, b, ahi, bhi, alo, blo))
    ELSE LongestOf(a, b, pop, alo, ahi, blo, bhi, cells,
                   MaxOf({ RunLen(a, b, pop, alo, blo, c[1], c[2]) : c \in cells }))

\* SequenceMatcher.find_longest_match(alo, ahi, blo, bhi): the longest matching
\* block, the one starting earliest in a and then earliest in b among those
find_longest_match(a, b, pop, alo, ahi, blo, bhi) ==
    LongestAmong(a, b, pop, alo, ahi, blo, bhi,
                 { c \in (alo..(ahi - 1)) \X (blo..(bhi - 1)) :
                     a[c[1] + 1] = b[c[2] + 1] /\ b[c[2] + 1] \notin pop })

RECURSIVE MatchingBlocksIn(_, _, _, _, _, _, _)
RECURSIVE BlocksAround(_, _, _, _, _, _, _, _)
\* the recursion of get_matching_blocks over a[alo:ahi], b[blo:bhi], sorted
MatchingBlocksIn(a, b, pop, alo, ahi, blo, bhi) ==
    BlocksAround(a, b, pop, alo, ahi, blo, bhi,
                 find_longest_match(a, b, pop, alo, ahi, blo, bhi))

\* the blocks left of the longest block m, m, and the blocks right of it
BlocksAround(a, b, pop, alo, ahi, blo, bhi, m) ==
    IF m.k = 0 THEN << >>
    ELSE (IF alo < m.i /\ blo < m.j
          THEN MatchingBlocksIn(a, b, pop, alo, m.i, blo, m.j) ELSE << >>)
         \o << m >>
         \o (IF m.i + m.k < ahi /\ m.j + m.k < bhi
             THEN MatchingBlocksIn(a, b, pop, m.i + m.k, ahi, m.j + m.k, bhi)
             ELSE << >>)

RECURSIVE MergeAdjacent(_)
\* get_matching_blocks collapses adjacent blocks into one
MergeAdjacent(blocks) ==
    IF Len(blocks) < 2 THEN blocks
    ELSE LET x == blocks[1]
             y == blocks[2]
         IN  IF x.i + x.k = y.i /\ x.j + x.k = y.j
             THEN MergeAdjacent(<< [i |-> x.i, j |-> x.j, k |-> x.k + y.k] >>
                                \o SubSeq(blocks, 3, Len(blocks)))
             ELSE << x >> \o MergeAdjacent(Tail(blocks))

\* SequenceMatcher.get_matching_blocks(), with its closing (la, lb, 0) block
get_matching_blocks(a, b) ==
    MergeAdjacent(MatchingBlocksIn(a, b, Popular(b), 0, Len(a), 0, Len(b)))
    \o << [i |-> Len(a), j |-> Len(b), k |-> 0] >>

RECURSIVE SumSizes(_)
SumSizes(blocks) ==
    IF blocks = << >> THEN 0 ELSE Head(blocks).k + SumSizes(Tail(blocks))

\* SequenceMatcher.ratio() = 2.0 * matches / (len(a) + len(b)), 1.0 for two empty
\* sequences; kept exact as the fraction <<numerator, denominator>>
ratio(a, b) ==
    IF Len(a) + Len(b) = 0 THEN << 1, 1 >>
    ELSE << 2 * SumSizes(get_matching_blocks(a, b)), Len(a) + Len(b) >>

\* comparisons of two ratios, and of a ratio with a decimal literal n/d
RatioGt(r, s) == r[1] * s[2] > s[1] * r[2]

RatioLt(r, s) == RatioGt(s, r)

RECURSIVE OpcodesFrom(_, _, _)
\* SequenceMatcher.get_opcodes(): <<tag, i1, i2, j1, j2>> in order
OpcodesFrom(blocks, i, j) ==
    IF blocks = << >> THEN << >>
    ELSE LET m == Head(blocks)
             tag == IF i < m.i /\ j < m.j THEN "replace"
                    ELSE IF i < m.i THEN "delete"
                    ELSE IF j < m.j THEN "insert"
                    ELSE ""
         IN  (IF tag # "" THEN << << tag, i, m.i, j, m.j >> >> ELSE << >>)
             \o (IF m.k > 0
                 THEN << << "equal", m.i, m.i + m.k, m.j, m.j + m.k >> >>
                 ELSE << >>)
             \o OpcodesFrom(Tail(blocks), m.i + m.k, m.j + m.k)

get_opcodes(a, b) == OpcodesFrom(get_matching_blocks(a, b), 0, 0)

\* ------------------------------------------------------------------------
\* HTMLDiffer: the pure functions
\* ------------------------------------------------------------------------

\* the value of a search that found no match
NoSpan == [start |-> -1, end |-> -1]

LT == << "<" >>

GT == << ">" >>

QUOTE == << "\"" >>

MAIN_OPEN == << "<", "m", "a", "i", "n" >>

MAIN_CLOSE == << "<", "/", "m", "a", "i", "n", ">" >>

DIV_OPEN == << "<", "d", "i", "v" >>

DIV_CLOSE == << "<", "/", "d", "i", "v", ">" >>

CLASS_EQ == << "c", "l", "a", "s", "s", "=", "\"" >>

CONTENT == << "c", "o", "n", "t", "e", "n", "t" >>

\* re.search(r'<main[^>]*>(.*?)</main>', html, re.DOTALL): the span of group 1,
\* or NoSpan.  [^>]* ends at the first '>' and .*? at the first '</main>' after
\* it; when the first '<main' has no such continuation no later one has.
MainSpan(html) ==
    LET s == Find(html, MAIN_OPEN, 0)
        g == IF s = -1 THEN -1 ELSE Find(html, GT, s + Len(MAIN_OPEN))
        e == IF g = -1 THEN -1 ELSE Find(html, MAIN_CLOSE, g + 1)
    IN  IF e = -1 THEN NoSpan ELSE [start |-> g + 1, end |-> e]

\* one attempt of r'<div[^>]*class="[^"]*content[^"]*"[^>]*>(.*?)</div>' at s:
\* the greedy [^>]* takes the last class=" it can reach without crossing '>'
\* from which the rest of the pattern matches
DivSpanAt(html, s) ==
    LET from == s + Len(DIV_OPEN)
        rest(c) ==
            LET q0 == c + Len(CLASS_EQ)
                q  == Find(html, QUOTE, q0)
                d  == Find(html, CONTENT, q0)
                g  == IF q = -1 THEN -1 ELSE Find(html, GT, q + 1)
                h  == IF g = -1 THEN -1 ELSE Find(html, DIV_CLOSE, g + 1)
            IN  IF d # -1 /\ q # -1 /\ d + Len(CONTENT) <= q /\ h # -1
                THEN [start |-> g + 1, end |-> h] ELSE NoSpan
        cs == { c \in from..Len(html) :
                  /\ StartsAt(html, CLASS_EQ, c)
                  /\ \A x \in from..(c - 1) : html[x + 1] # ">"
                  /\ rest(c) # NoSpan }
    IN  IF cs = {} THEN NoSpan ELSE rest(MaxOf(cs))

\* the span of the leftmost of the matches ms = [at, span], or NoSpan
Leftmost(ms) ==
    IF ms = {} THEN NoSpan
    ELSE (CHOOSE m \in ms : \A o \in ms : m.at <= o.at).span

\* re.search of the fallback container pattern: the leftmost start that matches
DivSpan(html) ==
    Leftmost({ m \in { [at |-> s, span |-> DivSpanAt(html, s)] :
                         s \in { x \in 0..Len(html) : StartsAt(html, DIV_OPEN, x) } } :
                 m.span # NoSpan })

\* span when the search found one, else other
OrElse(span, other) == IF span # NoSpan THEN span ELSE other

\* the span of html that extract_main_content returns
ContentSpan(html) ==
    OrElse(MainSpan(html), OrElse(DivSpan(html), [start |-> 0, end |-> Len(html)]))

SliceSpan(s, span) == Slice(s, span.start, span.end)

extract_main_content(html) == SliceSpan(html, ContentSpan(html))

\* the first components of the pairs
Firsts(pairs) == [ n \in 1..Len(pairs) |-> pairs[n][1] ]

\* the elements of s whose flag in keep (as long as s) is TRUE, in order
SelectAt(s, keep) ==
    Firsts(SelectSeq([ i \in 1..Len(s) |-> << s[i], keep[i] >> ], LAMBDA p : p[2]))

\* re.sub(r'\s+', ' ', html): every run of whitespace becomes one space
CollapseSpace(s) ==
    SelectAt([ i \in 1..Len(s) |-> IF IsSpace(s[i]) THEN " " ELSE s[i] ],
             [ i \in 1..Len(s) |-> ~(IsSpace(s[i]) /\ i > 1 /\ IsSpace(s[i - 1])) ])

COMMENT_OPEN == << "<", "!", "-", "-" >>

COMMENT_CLOSE == << "-", "-", ">" >>

RECURSIVE RemoveComments(_)
\* re.sub(r'<!--.*?-->', '', html, flags=re.DOTALL)
RemoveComments(s) ==
    LET o == Find(s, COMMENT_OPEN, 0)
        c == IF o = -1 THEN -1 ELSE Find(s, COMMENT_CLOSE, o + Len(COMMENT_OPEN))
    IN  IF c = -1 THEN s
        ELSE Slice(s, 0, o)
             \o RemoveComments(Slice(s, c + Len(COMMENT_CLOSE), Len(s)))

normalize_html(html) == Strip(RemoveComments(CollapseSpace(html)))

RECURSIVE Words(_)
\* re.findall(r'\S+|\s+', text): the maximal runs of non-space or of space
Words(text) ==
    IF text = << >> THEN << >>
    ELSE LET sp == IsSpace(text[1])
             ends == { n \in 1..Len(text) :
                         /\ \A x \in 1..n : IsSpace(text[x]) = sp
                         /\ n = Len(text) \/ IsSpace(text[n + 1]) # sp }
             n == MinOf(ends)
         IN  << SubSeq(text, 1, n) >> \o Words(SubSeq(text, n + 1, Len(text)))

RECURSIVE escape(_)
\* html.escape(s), quote=True
escape(s) ==
    IF s = << >> THEN << >>
    ELSE (CASE Head(s) = "&"  -> << "&", "a", "m", "p", ";" >>
            [] Head(s) = "<"  -> << "&", "l", "t", ";" >>
            [] Head(s) = ">"  -> << "&", "g", "t", ";" >>
            [] Head(s) = "\"" -> << "&", "q", "u", "o", "t", ";" >>
            [] Head(s) = "'"  -> << "&", "#", "x", "2", "7", ";" >>
            [] OTHER -> << Head(s) >>) \o escape(Tail(s))

\* the markers the program emits, each kept as one element
MARK_CHANGED_OPEN == "<mark class=\"preview-text-changed\" title=\"Modified from: "

MARK_CHANGED_MID == "\">"

MARK_TEXT_ADDED_OPEN == "<mark class=\"preview-text-added\">"

MARK_ELEMENT_ADDED_OPEN == "<mark class=\"preview-element-added\">"

MARK_CLOSE == "</mark>"

\* the elements of a text that end with '>': the character, and the tags
\* the program has put in
TagEnd ==
    { ">", MARK_CHANGED_MID, MARK_TEXT_ADDED_OPEN, MARK_ELEMENT_ADDED_OPEN,
      MARK_CLOSE }

\* where the [^>]*> of a pattern ends its match from the position from: the
\* least position >= from of an element that ends with '>', or -1
FindTagEnd(s, from) ==
    LET hits == { i \in from..(Len(s) - 1) : s[i + 1] \in TagEnd }
    IN  IF hits = {} THEN -1 ELSE MinOf(hits)

\* lines 76-89, with the tokens of a delete opcode kept in the result
OpcodeMarkupKeepingDeleted(op, old_words, new_words) ==
    LET new_part == Concat(Slice(new_words, op[4], op[5]))
        old_part == Concat(Slice(old_words, op[2], op[3]))
    IN  CASE op[1] = "equal"   -> new_part
          [] op[1] = "replace" -> << MARK_CHANGED_OPEN >> \o escape(old_part)
                                  \o << MARK_CHANGED_MID >> \o new_part
                                  \o << MARK_CLOSE >>
          [] op[1] = "insert"  -> << MARK_TEXT_ADDED_OPEN >> \o new_part
                                  \o << MARK_CLOSE >>
          [] op[1] = "delete"  -> old_part

\* the markup one opcode of the word diff contributes (lines 76-89)
OpcodeMarkup(op, old_words, new_words) ==
    LET new_part == Concat(Slice(new_words, op[4], op[5]))
        old_part == Concat(Slice(old_words, op[2], op[3]))
    IN  CASE op[1] = "equal"   -> new_part
          [] op[1] = "replace" -> << MARK_CHANGED_OPEN >> \o escape(old_part)
                                  \o << MARK_CHANGED_MID >> \o new_part
                                  \o << MARK_CLOSE >>
          [] op[1] = "insert"  -> << MARK_TEXT_ADDED_OPEN >> \o new_part
                                  \o << MARK_CLOSE >>
          [] op[1] = "delete"  -> << >>

\* the markup of the opcodes ops, one after the other
MarkupOf(ops, old_words, new_words) ==
    Concat([ n \in 1..Len(ops) |-> OpcodeMarkup(ops[n], old_words, new_words) ])

\* lines 72-91 for the two token lists
HighlightWords(old_words, new_words) ==
    MarkupOf(get_opcodes(old_words, new_words), old_words, new_words)

highlight_text_diff(old_text, new_text) == HighlightWords(Words(old_text), Words(new_text))

RECURSIVE StripTags(_)
\* re.sub(r'<[^>]+>', '', element_html): a '<', at least one other character,
\* and the first '>' after them
StripTags(s) ==
    LET opens == { i \in 0..(Len(s) - 1) :
                     /\ s[i + 1] = "<"
                     /\ Find(s, GT, i + 2) # -1
                     /\ i + 1 < Len(s) /\ s[i + 2] # ">" }
    IN  IF opens = {} THEN s
        ELSE LET i == MinOf(opens)
                 g == Find(s, GT, i + 2)
             IN  Slice(s, 0, i) \o StripTags(Slice(s, g + 1, Len(s)))

\* html.entities.html5: each name with the text it stands for
Html5Pairs ==
    {
      << "AElig", << "\\xc6" >> >>, << "AElig;", << "\\xc6" >> >>,
      << "AMP", << "&" >> >>, << "AMP;", << "&" >> >>,
      << "Aacute", << "\\xc1" >> >>, << "Aacute;", << "\\xc1" >> >>,
      << "Abreve;", << "\\u0102" >> >>, << "Acirc", << "\\xc2" >> >>,
      << "Acirc;", << "\\xc2" >> >>, << "Acy;", << "\\u0410" >> >>,
      << "Afr;", << "\\U0001d504" >> >>, << "Agrave", << "\\xc0" >> >>,
      << "Agrave;", << "\\xc0" >> >>, << "Alpha;", << "\\u0391" >> >>,
      << "Amacr;", << "\\u0100" >> >>, << "And;", << "\\u2a53" >> >>,
      << "Aogon;", << "\\u0104" >> >>, << "Aopf;", << "\\U0001d538" >> >>,
      << "ApplyFunction;", << "\\u2061" >> >>, << "Aring", << "\\xc5" >> >>,
      << "Aring;", << "\\xc5" >> >>, << "Ascr;", << "\\U0001d49c" >> >>,
      << "Assign;", << "\\u2254" >> >>, << "Atilde", << "\\xc3" >> >>,
      << "Atilde;", << "\\xc3" >> >>, << "Auml", << "\\xc4" >> >>,
      << "Auml;", << "\\xc4" >> >>, << "Backslash;", << "\\u2216" >> >>,
      << "Barv;", << "\\u2ae7" >> >>, << "Barwed;", << "\\u2306" >> >>,
      << "Bcy;", << "\\u0411" >> >>, << "Because;", << "\\u2235" >> >>,
      << "Bernoullis;", << "\\u212c" >> >>, << "Beta;", << "\\u0392" >> >>,
      << "Bfr;", << "\\U0001d505" >> >>, << "Bopf;", << "\\U0001d539" >> >>,
      << "Breve;", << "\\u02d8" >> >>, << "Bscr;", << "\\u212c" >> >>,
      << "Bumpeq;", << "\\u224e" >> >>, << "CHcy;", << "\\u0427" >> >>,
      << "COPY", << "\\xa9" >> >>, << "COPY;", << "\\xa9" >> >>,
      << "Cacute;", << "\\u0106" >> >>, << "Cap;", << "\\u22d2" >> >>,
      << "CapitalDifferentialD;", << "\\u2145" >> >>,
      << "Cayleys;", << "\\u212d" >> >>, << "Ccaron;", << "\\u010c" >> >>,
      << "Ccedil", << "\\xc7" >> >>, << "Ccedil;", << "\\xc7" >> >>,
      << "Ccirc;", << "\\u0108" >> >>, << "Cconint;", << "\\u2230" >> >>,
      << "Cdot;", << "\\u010a" >> >>, << "Cedilla;", << "\\xb8" >> >>,
      << "CenterDot;", << "\\xb7" >> >>, << "Cfr;", << "\\u212d" >> >>,
      << "Chi;", << "\\u03a7" >> >>, << "CircleDot;", << "\\u2299" >> >>,
      << "CircleMinus;", << "\\u2296" >> >>,
      << "CirclePlus;", << "\\u2295" >> >>,
      << "CircleTimes;", << "\\u2297" >> >>,
      << "ClockwiseContourIntegral;", << "\\u2232" >> >>,
      << "CloseCurlyDoubleQuote;", << "\\u201d" >> >>,
      << "CloseCurlyQuote;", << "\\u2019" >> >>,
      << "Colon;", << "\\u2237" >> >>, << "Colone;", << "\\u2a74" >> >>,
      << "Congruent;", << "\\u2261" >> >>, << "Conint;", << "\\u222f" >> >>,
      << "ContourIntegral;", << "\\u222e" >> >>,
      << "Copf;", << "\\u2102" >> >>, << "Coproduct;", << "\\u2210" >> >>,
      << "CounterClockwiseContourIntegral;", << "\\u2233" >> >>,
      << "Cross;", << "\\u2a2f" >> >>, << "Cscr;", << "\\U0001d49e" >> >>,
      << "Cup;", << "\\u22d3" >> >>, << "CupCap;", << "\\u224d" >> >>,
      << "DD;", << "\\u2145" >> >>, << "DDotrahd;", << "\\u2911" >> >>,
      << "DJcy;", << "\\u0402" >> >>, << "DScy;", << "\\u0405" >> >>,
      << "DZcy;", << "\\u040f" >> >>, << "Dagger;", << "\\u2021" >> >>,
      << "Darr;", << "\\u21a1" >> >>, << "Dashv;", << "\\u2ae4" >> >>,
      << "Dcaron;", << "\\u010e" >> >>, << "Dcy;", << "\\u0414" >> >>,
      << "Del;", << "\\u2207" >> >>, << "Delta;", << "\\u0394" >> >>,
      << "Dfr;", << "\\U0001d507" >> >>,
      << "DiacriticalAcute;", << "\\xb4" >> >>,
      << "DiacriticalDot;", << "\\u02d9" >> >>,
      << "DiacriticalDoubleAcute;", << "\\u02dd" >> >>,
      << "DiacriticalGrave;", << "\\x60" >> >>,
      << "DiacriticalTilde;", << "\\u02dc" >> >>,
      << "Diamond;", << "\\u22c4" >> >>,
      << "DifferentialD;", << "\\u2146" >> >>,
      << "Dopf;", << "\\U0001d53b" >> >>, << "Dot;", << "\\xa8" >> >>,
      << "DotDot;", << "\\u20dc" >> >>, << "DotEqual;", << "\\u2250" >> >>,
      << "DoubleContourIntegral;", << "\\u222f" >> >>,
      << "DoubleDot;", << "\\xa8" >> >>,
      << "DoubleDownArrow;", << "\\u21d3" >> >>,
      << "DoubleLeftArrow;", << "\\u21d0" >> >>,
      << "DoubleLeftRightArrow;", << "\\u21d4" >> >>,
      << "DoubleLeftTee;", << "\\u2ae4" >> >>,
      << "DoubleLongLeftArrow;", << "\\u27f8" >> >>,
      << "DoubleLongLeftRightArrow;", << "\\u27fa" >> >>,
      << "DoubleLongRightArrow;", << "\\u27f9" >> >>,
      << "DoubleRightArrow;", << "\\u21d2" >> >>,
      << "DoubleRightTee;", << "\\u22a8" >> >>,
      << "DoubleUpArrow;", << "\\u21d1" >> >>,
      << "DoubleUpDownArrow;", << "\\u21d5" >> >>,
      << "DoubleVerticalBar;", << "\\u2225" >> >>,
      << "DownArrow;", << "\\u2193" >> >>,
      << "DownArrowBar;", << "\\u2913" >> >>,
      << "DownArrowUpArrow;", << "\\u21f5" >> >>,
      << "DownBreve;", << "\\u0311" >> >>,
      << "DownLeftRightVector;", << "\\u2950" >> >>,
      << "DownLeftTeeVector;", << "\\u295e" >> >>,
      << "DownLeftVector;", << "\\u21bd" >> >>,
      << "DownLeftVectorBar;", << "\\u2956" >> >>,
      << "DownRightTeeVector;", << "\\u295f" >> >>,
      << "DownRightVector;", << "\\u21c1" >> >>,
      << "DownRightVectorBar;", << "\\u2957" >> >>,
      << "DownTee;", << "\\u22a4" >> >>,
      << "DownTeeArrow;", << "\\u21a7" >> >>,
      << "Downarrow;", << "\\u21d3" >> >>,
      << "Dscr;", << "\\U0001d49f" >> >>, << "Dstrok;", << "\\u0110" >> >>,
      << "ENG;", << "\\u014a" >> >>, << "ETH", << "\\xd0" >> >>,
      << "ETH;", << "\\xd0" >> >>, << "Eacute", << "\\xc9" >> >>,
      << "Eacute;", << "\\xc9" >> >>, << "Ecaron;", << "\\u011a" >> >>,
      << "Ecirc", << "\\xca" >> >>, << "Ecirc;", << "\\xca" >> >>,
      << "Ecy;", << "\\u042d" >> >>, << "Edot;", << "\\u0116" >> >>,
      << "Efr;", << "\\U0001d508" >> >>, << "Egrave", << "\\xc8" >> >>,
      << "Egrave;", << "\\xc8" >> >>, << "Element;", << "\\u2208" >> >>,
      << "Emacr;", << "\\u0112" >> >>,
      << "EmptySmallSquare;", << "\\u25fb" >> >>,
      << "EmptyVerySmallSquare;", << "\\u25ab" >> >>,
      << "Eogon;", << "\\u0118" >> >>, << "Eopf;", << "\\U0001d53c" >> >>,
      << "Epsilon;", << "\\u0395" >> >>, << "Equal;", << "\\u2a75" >> >>,
      << "EqualTilde;", << "\\u2242" >> >>,
      << "Equilibrium;", << "\\u21cc" >> >>, << "Escr;", << "\\u2130" >> >>,
      << "Esim;", << "\\u2a73" >> >>, << "Eta;", << "\\u0397" >> >>,
      << "Euml", << "\\xcb" >> >>, << "Euml;", << "\\xcb" >> >>,
      << "Exists;", << "\\u2203" >> >>,
      << "ExponentialE;", << "\\u2147" >> >>, << "Fcy;", << "\\u0424" >> >>,
      << "Ffr;", << "\\U0001d509" >> >>,
      << "FilledSmallSquare;", << "\\u25fc" >> >>,
      << "FilledVerySmallSquare;", << "\\u25aa" >> >>,
      << "Fopf;", << "\\U0001d53d" >> >>, << "ForAll;", << "\\u2200" >> >>,
      << "Fouriertrf;", << "\\u2131" >> >>, << "Fscr;", << "\\u2131" >> >>,
      << "GJcy;", << "\\u0403" >> >>, << "GT", << ">" >> >>,
      << "GT;", << ">" >> >>, << "Gamma;", << "\\u0393" >> >>,
      << "Gammad;", << "\\u03dc" >> >>, << "Gbreve;", << "\\u011e" >> >>,
      << "Gcedil;", << "\\u0122" >> >>, << "Gcirc;", << "\\u011c" >> >>,
      << "Gcy;", << "\\u0413" >> >>, << "Gdot;", << "\\u0120" >> >>,
      << "Gfr;", << "\\U0001d50a" >> >>, << "Gg;", << "\\u22d9" >> >>,
      << "Gopf;", << "\\U0001d53e" >> >>,
      << "GreaterEqual;", << "\\u2265" >> >>,
      << "GreaterEqualLess;", << "\\u22db" >> >>,
      << "GreaterFullEqual;", << "\\u2267" >> >>,
      << "GreaterGreater;", << "\\u2aa2" >> >>,
      << "GreaterLess;", << "\\u2277" >> >>,
      << "GreaterSlantEqual;", << "\\u2a7e" >> >>,
      << "GreaterTilde;", << "\\u2273" >> >>,
      << "Gscr;", << "\\U0001d4a2" >> >>, << "Gt;", << "\\u226b" >> >>,
      << "HARDcy;", << "\\u042a" >> >>, << "Hacek;", << "\\u02c7" >> >>,
      << "Hat;", << "^" >> >>, << "Hcirc;", << "\\u0124" >> >>,
      << "Hfr;", << "\\u210c" >> >>, << "HilbertSpace;", << "\\u210b" >> >>,
      << "Hopf;", << "\\u210d" >> >>,
      << "HorizontalLine;", << "\\u2500" >> >>,
      << "Hscr;", << "\\u210b" >> >>, << "Hstrok;", << "\\u0126" >> >>,
      << "HumpDownHump;", << "\\u224e" >> >>,
      << "HumpEqual;", << "\\u224f" >> >>, << "IEcy;", << "\\u0415" >> >>,
      << "IJlig;", << "\\u0132" >> >>, << "IOcy;", << "\\u0401" >> >>,
      << "Iacute", << "\\xcd" >> >>, << "Iacute;", << "\\xcd" >> >>,
      << "Icirc", << "\\xce" >> >>, << "Icirc;", << "\\xce" >> >>,
      << "Icy;", << "\\u0418" >> >>, << "Idot;", << "\\u0130" >> >>,
      << "Ifr;", << "\\u2111" >> >>, << "Igrave", << "\\xcc" >> >>,
      << "Igrave;", << "\\xcc" >> >>, << "Im;", << "\\u2111" >> >>,
      << "Imacr;", << "\\u012a" >> >>, << "ImaginaryI;", << "\\u2148" >> >>,
      << "Implies;", << "\\u21d2" >> >>, << "Int;", << "\\u222c" >> >>,
      << "Integral;", << "\\u222b" >> >>,
      << "Intersection;", << "\\u22c2" >> >>,
      << "InvisibleComma;", << "\\u2063" >> >>,
      << "InvisibleTimes;", << "\\u2062" >> >>,
      << "Iogon;", << "\\u012e" >> >>, << "Iopf;", << "\\U0001d540" >> >>,
      << "Iota;", << "\\u0399" >> >>, << "Iscr;", << "\\u2110" >> >>,
      << "Itilde;", << "\\u0128" >> >>, << "Iukcy;", << "\\u0406" >> >>,
      << "Iuml", << "\\xcf" >> >>, << "Iuml;", << "\\xcf" >> >>,
      << "Jcirc;", << "\\u0134" >> >>, << "Jcy;", << "\\u0419" >> >>,
      << "Jfr;", << "\\U0001d50d" >> >>, << "Jopf;", << "\\U0001d541" >> >>,
      << "Jscr;", << "\\U0001d4a5" >> >>, << "Jsercy;", << "\\u0408" >> >>,
      << "Jukcy;", << "\\u0404" >> >>, << "KHcy;", << "\\u0425" >> >>,
      << "KJcy;", << "\\u040c" >> >>, << "Kappa;", << "\\u039a" >> >>,
      << "Kcedil;", << "\\u0136" >> >>, << "Kcy;", << "\\u041a" >> >>,
      << "Kfr;", << "\\U0001d50e" >> >>, << "Kopf;", << "\\U0001d542" >> >>,
      << "Kscr;", << "\\U0001d4a6" >> >>, << "LJcy;", << "\\u0409" >> >>,
      << "LT", << "<" >> >>, << "LT;", << "<" >> >>,
      << "Lacute;", << "\\u0139" >> >>, << "Lambda;", << "\\u039b" >> >>,
      << "Lang;", << "\\u27ea" >> >>, << "Laplacetrf;", << "\\u2112" >> >>,
      << "Larr;", << "\\u219e" >> >>, << "Lcaron;", << "\\u013d" >> >>,
      << "Lcedil;", << "\\u013b" >> >>, << "Lcy;", << "\\u041b" >> >>,
      << "LeftAngleBracket;", << "\\u27e8" >> >>,
      << "LeftArrow;", << "\\u2190" >> >>,
      << "LeftArrowBar;", << "\\u21e4" >> >>,
      << "LeftArrowRightArrow;", << "\\u21c6" >> >>,
      << "LeftCeiling;", << "\\u2308" >> >>,
      << "LeftDoubleBracket;", << "\\u27e6" >> >>,
      << "LeftDownTeeVector;", << "\\u2961" >> >>,
      << "LeftDownVector;", << "\\u21c3" >> >>,
      << "LeftDownVectorBar;", << "\\u2959" >> >>,
      << "LeftFloor;", << "\\u230a" >> >>,
      << "LeftRightArrow;", << "\\u2194" >> >>,
      << "LeftRightVector;", << "\\u294e" >> >>,
      << "LeftTee;", << "\\u22a3" >> >>,
      << "LeftTeeArrow;", << "\\u21a4" >> >>,
      << "LeftTeeVector;", << "\\u295a" >> >>,
      << "LeftTriangle;", << "\\u22b2" >> >>,
      << "LeftTriangleBar;", << "\\u29cf" >> >>,
      << "LeftTriangleEqual;", << "\\u22b4" >> >>,
      << "LeftUpDownVector;", << "\\u2951" >> >>,
      << "LeftUpTeeVector;", << "\\u2960" >> >>,
      << "LeftUpVector;", << "\\u21bf" >> >>,
      << "LeftUpVectorBar;", << "\\u2958" >> >>,
      << "LeftVector;", << "\\u21bc" >> >>,
      << "LeftVectorBar;", << "\\u2952" >> >>,
      << "Leftarrow;", << "\\u21d0" >> >>,
      << "Leftrightarrow;", << "\\u21d4" >> >>,
      << "LessEqualGreater;", << "\\u22da" >> >>,
      << "LessFullEqual;", << "\\u2266" >> >>,
      << "LessGreater;", << "\\u2276" >> >>,
      << "LessLess;", << "\\u2aa1" >> >>,
      << "LessSlantEqual;", << "\\u2a7d" >> >>,
      << "LessTilde;", << "\\u2272" >> >>, << "Lfr;", << "\\U0001d50f" >> >>,
      << "Ll;", << "\\u22d8" >> >>, << "Lleftarrow;", << "\\u21da" >> >>,
      << "Lmidot;", << "\\u013f" >> >>,
      << "LongLeftArrow;", << "\\u27f5" >> >>,
      << "LongLeftRightArrow;", << "\\u27f7" >> >>,
      << "LongRightArrow;", << "\\u27f6" >> >>,
      << "Longleftarrow;", << "\\u27f8" >> >>,
      << "Longleftrightarrow;", << "\\u27fa" >> >>,
      << "Longrightarrow;", << "\\u27f9" >> >>,
      << "Lopf;", << "\\U0001d543" >> >>,
      << "LowerLeftArrow;", << "\\u2199" >> >>,
      << "LowerRightArrow;", << "\\u2198" >> >>,
      << "Lscr;", << "\\u2112" >> >>, << "Lsh;", << "\\u21b0" >> >>,
      << "Lstrok;", << "\\u0141" >> >>, << "Lt;", << "\\u226a" >> >>,
      << "Map;", << "\\u2905" >> >>, << "Mcy;", << "\\u041c" >> >>,
      << "MediumSpace;", << "\\u205f" >> >>,
      << "Mellintrf;", << "\\u2133" >> >>, << "Mfr;", << "\\U0001d510" >> >>,
      << "MinusPlus;", << "\\u2213" >> >>,
      << "Mopf;", << "\\U0001d544" >> >>, << "Mscr;", << "\\u2133" >> >>,
      << "Mu;", << "\\u039c" >> >>, << "NJcy;", << "\\u040a" >> >>,
      << "Nacute;", << "\\u0143" >> >>, << "Ncaron;", << "\\u0147" >> >>,
      << "Ncedil;", << "\\u0145" >> >>, << "Ncy;", << "\\u041d" >> >>,
      << "NegativeMediumSpace;", << "\\u200b" >> >>,
      << "NegativeThickSpace;", << "\\u200b" >> >>,
      << "NegativeThinSpace;", << "\\u200b" >> >>,
      << "NegativeVeryThinSpace;", << "\\u200b" >> >>,
      << "NestedGreaterGreater;", << "\\u226b" >> >>,
      << "NestedLessLess;", << "\\u226a" >> >>, << "NewLine;", << "\n" >> >>,
      << "Nfr;", << "\\U0001d511" >> >>, << "NoBreak;", << "\\u2060" >> >>,
      << "NonBreakingSpace;", << "\\xa0" >> >>,
      << "Nopf;", << "\\u2115" >> >>, << "Not;", << "\\u2aec" >> >>,
      << "NotCongruent;", << "\\u2262" >> >>,
      << "NotCupCap;", << "\\u226d" >> >>,
      << "NotDoubleVerticalBar;", << "\\u2226" >> >>,
      << "NotElement;", << "\\u2209" >> >>,
      << "NotEqual;", << "\\u2260" >> >>,
      << "NotEqualTilde;", << "\\u2242", "\\u0338" >> >>,
      << "NotExists;", << "\\u2204" >> >>,
      << "NotGreater;", << "\\u226f" >> >>,
      << "NotGreaterEqual;", << "\\u2271" >> >>,
      << "NotGreaterFullEqual;", << "\\u2267", "\\u0338" >> >>,
      << "NotGreaterGreater;", << "\\u226b", "\\u0338" >> >>,
      << "NotGreaterLess;", << "\\u2279" >> >>,
      << "NotGreaterSlantEqual;", << "\\u2a7e", "\\u0338" >> >>,
      << "NotGreaterTilde;", << "\\u2275" >> >>,
      << "NotHumpDownHump;", << "\\u224e", "\\u0338" >> >>,
      << "NotHumpEqual;", << "\\u224f", "\\u0338" >> >>,
      << "NotLeftTriangle;", << "\\u22ea" >> >>,
      << "NotLeftTriangleBar;", << "\\u29cf", "\\u0338" >> >>,
      << "NotLeftTriangleEqual;", << "\\u22ec" >> >>,
      << "NotLess;", << "\\u226e" >> >>,
      << "NotLessEqual;", << "\\u2270" >> >>,
      << "NotLessGreater;", << "\\u2278" >> >>,
      << "NotLessLess;", << "\\u226a", "\\u0338" >> >>,
      << "NotLessSlantEqual;", << "\\u2a7d", "\\u0338" >> >>,
      << "NotLessTilde;", << "\\u2274" >> >>,
      << "NotNestedGreaterGreater;", << "\\u2aa2", "\\u0338" >> >>,
      << "NotNestedLessLess;", << "\\u2aa1", "\\u0338" >> >>,
      << "NotPrecedes;", << "\\u2280" >> >>,
      << "NotPrecedesEqual;", << "\\u2aaf", "\\u0338" >> >>,
      << "NotPrecedesSlantEqual;", << "\\u22e0" >> >>,
      << "NotReverseElement;", << "\\u220c" >> >>,
      << "NotRightTriangle;", << "\\u22eb" >> >>,
      << "NotRightTriangleBar;", << "\\u29d0", "\\u0338" >> >>,
      << "NotRightTriangleEqual;", << "\\u22ed" >> >>,
      << "NotSquareSubset;", << "\\u228f", "\\u0338" >> >>,
      << "NotSquareSubsetEqual;", << "\\u22e2" >> >>,
      << "NotSquareSuperset;", << "\\u2290", "\\u0338" >> >>,
      << "NotSquareSupersetEqual;", << "\\u22e3" >> >>,
      << "NotSubset;", << "\\u2282", "\\u20d2" >> >>,
      << "NotSubsetEqual;", << "\\u2288" >> >>,
      << "NotSucceeds;", << "\\u2281" >> >>,
      << "NotSucceedsEqual;", << "\\u2ab0", "\\u0338" >> >>,
      << "NotSucceedsSlantEqual;", << "\\u22e1" >> >>,
      << "NotSucceedsTilde;", << "\\u227f", "\\u0338" >> >>,
      << "NotSuperset;", << "\\u2283", "\\u20d2" >> >>,
      << "NotSupersetEqual;", << "\\u2289" >> >>,
      << "NotTilde;", << "\\u2241" >> >>,
      << "NotTildeEqual;", << "\\u2244" >> >>,
      << "NotTildeFullEqual;", << "\\u2247" >> >>,
      << "NotTildeTilde;", << "\\u2249" >> >>,
      << "NotVerticalBar;", << "\\u2224" >> >>,
      << "Nscr;", << "\\U0001d4a9" >> >>, << "Ntilde", << "\\xd1" >> >>,
      << "Ntilde;", << "\\xd1" >> >>, << "Nu;", << "\\u039d" >> >>,
      << "OElig;", << "\\u0152" >> >>, << "Oacute", << "\\xd3" >> >>,
      << "Oacute;", << "\\xd3" >> >>, << "Ocirc", << "\\xd4" >> >>,
      << "Ocirc;", << "\\xd4" >> >>, << "Ocy;", << "\\u041e" >> >>,
      << "Odblac;", << "\\u0150" >> >>, << "Ofr;", << "\\U0001d512" >> >>,
      << "Ograve", << "\\xd2" >> >>, << "Ograve;", << "\\xd2" >> >>,
      << "Omacr;", << "\\u014c" >> >>, << "Omega;", << "\\u03a9" >> >>,
      << "Omicron;", << "\\u039f" >> >>, << "Oopf;", << "\\U0001d546" >> >>,
      << "OpenCurlyDoubleQuote;", << "\\u201c" >> >>,
      << "OpenCurlyQuote;", << "\\u2018" >> >>, << "Or;", << "\\u2a54" >> >>,
      << "Oscr;", << "\\U0001d4aa" >> >>, << "Oslash", << "\\xd8" >> >>,
      << "Oslash;", << "\\xd8" >> >>, << "Otilde", << "\\xd5" >> >>,
      << "Otilde;", << "\\xd5" >> >>, << "Otimes;", << "\\u2a37" >> >>,
      << "Ouml", << "\\xd6" >> >>, << "Ouml;", << "\\xd6" >> >>,
      << "OverBar;", << "\\u203e" >> >>, << "OverBrace;", << "\\u23de" >> >>,
      << "OverBracket;", << "\\u23b4" >> >>,
      << "OverParenthesis;", << "\\u23dc" >> >>,
      << "PartialD;", << "\\u2202" >> >>, << "Pcy;", << "\\u041f" >> >>,
      << "Pfr;", << "\\U0001d513" >> >>, << "Phi;", << "\\u03a6" >> >>,
      << "Pi;", << "\\u03a0" >> >>, << "PlusMinus;", << "\\xb1" >> >>,
      << "Poincareplane;", << "\\u210c" >> >>,
      << "Popf;", << "\\u2119" >> >>, << "Pr;", << "\\u2abb" >> >>,
      << "Precedes;", << "\\u227a" >> >>,
      << "PrecedesEqual;", << "\\u2aaf" >> >>,
      << "PrecedesSlantEqual;", << "\\u227c" >> >>,
      << "PrecedesTilde;", << "\\u227e" >> >>,
      << "Prime;", << "\\u2033" >> >>, << "Product;", << "\\u220f" >> >>,
      << "Proportion;", << "\\u2237" >> >>,
      << "Proportional;", << "\\u221d" >> >>,
      << "Pscr;", << "\\U0001d4ab" >> >>, << "Psi;", << "\\u03a8" >> >>,
      << "QUOT", << "\"" >> >>, << "QUOT;", << "\"" >> >>,
      << "Qfr;", << "\\U0001d514" >> >>, << "Qopf;", << "\\u211a" >> >>,
      << "Qscr;", << "\\U0001d4ac" >> >>, << "RBarr;", << "\\u2910" >> >>,
      << "REG", << "\\xae" >> >>, << "REG;", << "\\xae" >> >>,
      << "Racute;", << "\\u0154" >> >>, << "Rang;", << "\\u27eb" >> >>,
      << "Rarr;", << "\\u21a0" >> >>, << "Rarrtl;", << "\\u2916" >> >>,
      << "Rcaron;", << "\\u0158" >> >>, << "Rcedil;", << "\\u0156" >> >>,
      << "Rcy;", << "\\u0420" >> >>, << "Re;", << "\\u211c" >> >>,
      << "ReverseElement;", << "\\u220b" >> >>,
      << "ReverseEquilibrium;", << "\\u21cb" >> >>,
      << "ReverseUpEquilibrium;", << "\\u296f" >> >>,
      << "Rfr;", << "\\u211c" >> >>, << "Rho;", << "\\u03a1" >> >>,
      << "RightAngleBracket;", << "\\u27e9" >> >>,
      << "RightArrow;", << "\\u2192" >> >>,
      << "RightArrowBar;", << "\\u21e5" >> >>,
      << "RightArrowLeftArrow;", << "\\u21c4" >> >>,
      << "RightCeiling;", << "\\u2309" >> >>,
      << "RightDoubleBracket;", << "\\u27e7" >> >>,
      << "RightDownTeeVector;", << "\\u295d" >> >>,
      << "RightDownVector;", << "\\u21c2" >> >>,
      << "RightDownVectorBar;", << "\\u2955" >> >>,
      << "RightFloor;", << "\\u230b" >> >>,
      << "RightTee;", << "\\u22a2" >> >>,
      << "RightTeeArrow;", << "\\u21a6" >> >>,
      << "RightTeeVector;", << "\\u295b" >> >>,
      << "RightTriangle;", << "\\u22b3" >> >>,
      << "RightTriangleBar;", << "\\u29d0" >> >>,
      << "RightTriangleEqual;", << "\\u22b5" >> >>,
      << "RightUpDownVector;", << "\\u294f" >> >>,
      << "RightUpTeeVector;", << "\\u295c" >> >>,
      << "RightUpVector;", << "\\u21be" >> >>,
      << "RightUpVectorBar;", << "\\u2954" >> >>,
      << "RightVector;", << "\\u21c0" >> >>,
      << "RightVectorBar;", << "\\u2953" >> >>,
      << "Rightarrow;", << "\\u21d2" >> >>, << "Ropf;", << "\\u211d" >> >>,
      << "RoundImplies;", << "\\u2970" >> >>,
      << "Rrightarrow;", << "\\u21db" >> >>, << "Rscr;", << "\\u211b" >> >>,
      << "Rsh;", << "\\u21b1" >> >>, << "RuleDelayed;", << "\\u29f4" >> >>,
      << "SHCHcy;", << "\\u0429" >> >>, << "SHcy;", << "\\u0428" >> >>,
      << "SOFTcy;", << "\\u042c" >> >>, << "Sacute;", << "\\u015a" >> >>,
      << "Sc;", << "\\u2abc" >> >>, << "Scaron;", << "\\u0160" >> >>,
      << "Scedil;", << "\\u015e" >> >>, << "Scirc;", << "\\u015c" >> >>,
      << "Scy;", << "\\u0421" >> >>, << "Sfr;", << "\\U0001d516" >> >>,
      << "ShortDownArrow;", << "\\u2193" >> >>,
      << "ShortLeftArrow;", << "\\u2190" >> >>,
      << "ShortRightArrow;", << "\\u2192" >> >>,
      << "ShortUpArrow;", << "\\u2191" >> >>,
      << "Sigma;", << "\\u03a3" >> >>, << "SmallCircle;", << "\\u2218" >> >>,
      << "Sopf;", << "\\U0001d54a" >> >>, << "Sqrt;", << "\\u221a" >> >>,
      << "Square;", << "\\u25a1" >> >>,
      << "SquareIntersection;", << "\\u2293" >> >>,
      << "SquareSubset;", << "\\u228f" >> >>,
      << "SquareSubsetEqual;", << "\\u2291" >> >>,
      << "SquareSuperset;", << "\\u2290" >> >>,
      << "SquareSupersetEqual;", << "\\u2292" >> >>,
      << "SquareUnion;", << "\\u2294" >> >>,
      << "Sscr;", << "\\U0001d4ae" >> >>, << "Star;", << "\\u22c6" >> >>,
      << "Sub;", << "\\u22d0" >> >>, << "Subset;", << "\\u22d0" >> >>,
      << "SubsetEqual;", << "\\u2286" >> >>,
      << "Succeeds;", << "\\u227b" >> >>,
      << "SucceedsEqual;", << "\\u2ab0" >> >>,
      << "SucceedsSlantEqual;", << "\\u227d" >> >>,
      << "SucceedsTilde;", << "\\u227f" >> >>,
      << "SuchThat;", << "\\u220b" >> >>, << "Sum;", << "\\u2211" >> >>,
      << "Sup;", << "\\u22d1" >> >>, << "Superset;", << "\\u2283" >> >>,
      << "SupersetEqual;", << "\\u2287" >> >>,
      << "Supset;", << "\\u22d1" >> >>, << "THORN", << "\\xde" >> >>,
      << "THORN;", << "\\xde" >> >>, << "TRADE;", << "\\u2122" >> >>,
      << "TSHcy;", << "\\u040b" >> >>, << "TScy;", << "\\u0426" >> >>,
      << "Tab;", << "\t" >> >>, << "Tau;", << "\\u03a4" >> >>,
      << "Tcaron;", << "\\u0164" >> >>, << "Tcedil;", << "\\u0162" >> >>,
      << "Tcy;", << "\\u0422" >> >>, << "Tfr;", << "\\U0001d517" >> >>,
      << "Therefore;", << "\\u2234" >> >>, << "Theta;", << "\\u0398" >> >>,
      << "ThickSpace;", << "\\u205f", "\\u200a" >> >>,
      << "ThinSpace;", << "\\u2009" >> >>, << "Tilde;", << "\\u223c" >> >>,
      << "TildeEqual;", << "\\u2243" >> >>,
      << "TildeFullEqual;", << "\\u2245" >> >>,
      << "TildeTilde;", << "\\u2248" >> >>,
      << "Topf;", << "\\U0001d54b" >> >>,
      << "TripleDot;", << "\\u20db" >> >>,
      << "Tscr;", << "\\U0001d4af" >> >>, << "Tstrok;", << "\\u0166" >> >>,
      << "Uacute", << "\\xda" >> >>, << "Uacute;", << "\\xda" >> >>,
      << "Uarr;", << "\\u219f" >> >>, << "Uarrocir;", << "\\u2949" >> >>,
      << "Ubrcy;", << "\\u040e" >> >>, << "Ubreve;", << "\\u016c" >> >>,
      << "Ucirc", << "\\xdb" >> >>, << "Ucirc;", << "\\xdb" >> >>,
      << "Ucy;", << "\\u0423" >> >>, << "Udblac;", << "\\u0170" >> >>,
      << "Ufr;", << "\\U0001d518" >> >>, << "Ugrave", << "\\xd9" >> >>,
      << "Ugrave;", << "\\xd9" >> >>, << "Umacr;", << "\\u016a" >> >>,
      << "UnderBar;", << "_" >> >>, << "UnderBrace;", << "\\u23df" >> >>,
      << "UnderBracket;", << "\\u23b5" >> >>,
      << "UnderParenthesis;", << "\\u23dd" >> >>,
      << "Union;", << "\\u22c3" >> >>, << "UnionPlus;", << "\\u228e" >> >>,
      << "Uogon;", << "\\u0172" >> >>, << "Uopf;", << "\\U0001d54c" >> >>,
      << "UpArrow;", << "\\u2191" >> >>,
      << "UpArrowBar;", << "\\u2912" >> >>,
      << "UpArrowDownArrow;", << "\\u21c5" >> >>,
      << "UpDownArrow;", << "\\u2195" >> >>,
      << "UpEquilibrium;", << "\\u296e" >> >>,
      << "UpTee;", << "\\u22a5" >> >>, << "UpTeeArrow;", << "\\u21a5" >> >>,
      << "Uparrow;", << "\\u21d1" >> >>,
      << "Updownarrow;", << "\\u21d5" >> >>,
      << "UpperLeftArrow;", << "\\u2196" >> >>,
      << "UpperRightArrow;", << "\\u2197" >> >>,
      << "Upsi;", << "\\u03d2" >> >>, << "Upsilon;", << "\\u03a5" >> >>,
      << "Uring;", << "\\u016e" >> >>, << "Uscr;", << "\\U0001d4b0" >> >>,
      << "Utilde;", << "\\u0168" >> >>, << "Uuml", << "\\xdc" >> >>,
      << "Uuml;", << "\\xdc" >> >>, << "VDash;", << "\\u22ab" >> >>,
      << "Vbar;", << "\\u2aeb" >> >>, << "Vcy;", << "\\u0412" >> >>,
      << "Vdash;", << "\\u22a9" >> >>, << "Vdashl;", << "\\u2ae6" >> >>,
      << "Vee;", << "\\u22c1" >> >>, << "Verbar;", << "\\u2016" >> >>,
      << "Vert;", << "\\u2016" >> >>, << "VerticalBar;", << "\\u2223" >> >>,
      << "VerticalLine;", << "|" >> >>,
      << "VerticalSeparator;", << "\\u2758" >> >>,
      << "VerticalTilde;", << "\\u2240" >> >>,
      << "VeryThinSpace;", << "\\u200a" >> >>,
      << "Vfr;", << "\\U0001d519" >> >>, << "Vopf;", << "\\U0001d54d" >> >>,
      << "Vscr;", << "\\U0001d4b1" >> >>, << "Vvdash;", << "\\u22aa" >> >>,
      << "Wcirc;", << "\\u0174" >> >>, << "Wedge;", << "\\u22c0" >> >>,
      << "Wfr;", << "\\U0001d51a" >> >>, << "Wopf;", << "\\U0001d54e" >> >>,
      << "Wscr;", << "\\U0001d4b2" >> >>, << "Xfr;", << "\\U0001d51b" >> >>,
      << "Xi;", << "\\u039e" >> >>, << "Xopf;", << "\\U0001d54f" >> >>,
      << "Xscr;", << "\\U0001d4b3" >> >>, << "YAcy;", << "\\u042f" >> >>,
      << "YIcy;", << "\\u0407" >> >>, << "YUcy;", << "\\u042e" >> >>,
      << "Yacute", << "\\xdd" >> >>, << "Yacute;", << "\\xdd" >> >>,
      << "Ycirc;", << "\\u0176" >> >>, << "Ycy;", << "\\u042b" >> >>,
      << "Yfr;", << "\\U0001d51c" >> >>, << "Yopf;", << "\\U0001d550" >> >>,
      << "Yscr;", << "\\U0001d4b4" >> >>, << "Yuml;", << "\\u0178" >> >>,
      << "ZHcy;", << "\\u0416" >> >>, << "Zacute;", << "\\u0179" >> >>,
      << "Zcaron;", << "\\u017d" >> >>, << "Zcy;", << "\\u0417" >> >>,
      << "Zdot;", << "\\u017b" >> >>,
      << "ZeroWidthSpace;", << "\\u200b" >> >>,
      << "Zeta;", << "\\u0396" >> >>, << "Zfr;", << "\\u2128" >> >>,
      << "Zopf;", << "\\u2124" >> >>, << "Zscr;", << "\\U0001d4b5" >> >>,
      << "aacute", << "\\xe1" >> >>, << "aacute;", << "\\xe1" >> >>,
      << "abreve;", << "\\u0103" >> >>, << "ac;", << "\\u223e" >> >>,
      << "acE;", << "\\u223e", "\\u0333" >> >>,
      << "acd;", << "\\u223f" >> >>, << "acirc", << "\\xe2" >> >>,
      << "acirc;", << "\\xe2" >> >>, << "acute", << "\\xb4" >> >>,
      << "acute;", << "\\xb4" >> >>, << "acy;", << "\\u0430" >> >>,
      << "aelig", << "\\xe6" >> >>, << "aelig;", << "\\xe6" >> >>,
      << "af;", << "\\u2061" >> >>, << "afr;", << "\\U0001d51e" >> >>,
      << "agrave", << "\\xe0" >> >>, << "agrave;", << "\\xe0" >> >>,
      << "alefsym;", << "\\u2135" >> >>, << "aleph;", << "\\u2135" >> >>,
      << "alpha;", << "\\u03b1" >> >>, << "amacr;", << "\\u0101" >> >>,
      << "amalg;", << "\\u2a3f" >> >>, << "amp", << "&" >> >>,
      << "amp;", << "&" >> >>, << "and;", << "\\u2227" >> >>,
      << "andand;", << "\\u2a55" >> >>, << "andd;", << "\\u2a5c" >> >>,
      << "andslope;", << "\\u2a58" >> >>, << "andv;", << "\\u2a5a" >> >>,
      << "ang;", << "\\u2220" >> >>, << "ange;", << "\\u29a4" >> >>,
      << "angle;", << "\\u2220" >> >>, << "angmsd;", << "\\u2221" >> >>,
      << "angmsdaa;", << "\\u29a8" >> >>, << "angmsdab;", << "\\u29a9" >> >>,
      << "angmsdac;", << "\\u29aa" >> >>, << "angmsdad;", << "\\u29ab" >> >>,
      << "angmsdae;", << "\\u29ac" >> >>, << "angmsdaf;", << "\\u29ad" >> >>,
      << "angmsdag;", << "\\u29ae" >> >>, << "angmsdah;", << "\\u29af" >> >>,
      << "angrt;", << "\\u221f" >> >>, << "angrtvb;", << "\\u22be" >> >>,
      << "angrtvbd;", << "\\u299d" >> >>, << "angsph;", << "\\u2222" >> >>,
      << "angst;", << "\\xc5" >> >>, << "angzarr;", << "\\u237c" >> >>,
      << "aogon;", << "\\u0105" >> >>, << "aopf;", << "\\U0001d552" >> >>,
      << "ap;", << "\\u2248" >> >>, << "apE;", << "\\u2a70" >> >>,
      << "apacir;", << "\\u2a6f" >> >>, << "ape;", << "\\u224a" >> >>,
      << "apid;", << "\\u224b" >> >>, << "apos;", << "'" >> >>,
      << "approx;", << "\\u2248" >> >>, << "approxeq;", << "\\u224a" >> >>,
      << "aring", << "\\xe5" >> >>, << "aring;", << "\\xe5" >> >>,
      << "ascr;", << "\\U0001d4b6" >> >>, << "ast;", << "*" >> >>,
      << "asymp;", << "\\u2248" >> >>, << "asympeq;", << "\\u224d" >> >>,
      << "atilde", << "\\xe3" >> >>, << "atilde;", << "\\xe3" >> >>,
      << "auml", << "\\xe4" >> >>, << "auml;", << "\\xe4" >> >>,
      << "awconint;", << "\\u2233" >> >>, << "awint;", << "\\u2a11" >> >>,
      << "bNot;", << "\\u2aed" >> >>, << "backcong;", << "\\u224c" >> >>,
      << "backepsilon;", << "\\u03f6" >> >>,
      << "backprime;", << "\\u2035" >> >>, << "backsim;", << "\\u223d" >> >>,
      << "backsimeq;", << "\\u22cd" >> >>, << "barvee;", << "\\u22bd" >> >>,
      << "barwed;", << "\\u2305" >> >>, << "barwedge;", << "\\u2305" >> >>,
      << "bbrk;", << "\\u23b5" >> >>, << "bbrktbrk;", << "\\u23b6" >> >>,
      << "bcong;", << "\\u224c" >> >>, << "bcy;", << "\\u0431" >> >>,
      << "bdquo;", << "\\u201e" >> >>, << "becaus;", << "\\u2235" >> >>,
      << "because;", << "\\u2235" >> >>, << "bemptyv;", << "\\u29b0" >> >>,
      << "bepsi;", << "\\u03f6" >> >>, << "bernou;", << "\\u212c" >> >>,
      << "beta;", << "\\u03b2" >> >>, << "beth;", << "\\u2136" >> >>,
      << "between;", << "\\u226c" >> >>, << "bfr;", << "\\U0001d51f" >> >>,
      << "bigcap;", << "\\u22c2" >> >>, << "bigcirc;", << "\\u25ef" >> >>,
      << "bigcup;", << "\\u22c3" >> >>, << "bigodot;", << "\\u2a00" >> >>,
      << "bigoplus;", << "\\u2a01" >> >>,
      << "bigotimes;", << "\\u2a02" >> >>,
      << "bigsqcup;", << "\\u2a06" >> >>, << "bigstar;", << "\\u2605" >> >>,
      << "bigtriangledown;", << "\\u25bd" >> >>,
      << "bigtriangleup;", << "\\u25b3" >> >>,
      << "biguplus;", << "\\u2a04" >> >>, << "bigvee;", << "\\u22c1" >> >>,
      << "bigwedge;", << "\\u22c0" >> >>, << "bkarow;", << "\\u290d" >> >>,
      << "blacklozenge;", << "\\u29eb" >> >>,
      << "blacksquare;", << "\\u25aa" >> >>,
      << "blacktriangle;", << "\\u25b4" >> >>,
      << "blacktriangledown;", << "\\u25be" >> >>,
      << "blacktriangleleft;", << "\\u25c2" >> >>,
      << "blacktriangleright;", << "\\u25b8" >> >>,
      << "blank;", << "\\u2423" >> >>, << "blk12;", << "\\u2592" >> >>,
      << "blk14;", << "\\u2591" >> >>, << "blk34;", << "\\u2593" >> >>,
      << "block;", << "\\u2588" >> >>, << "bne;", << "=", "\\u20e5" >> >>,
      << "bnequiv;", << "\\u2261", "\\u20e5" >> >>,
      << "bnot;", << "\\u2310" >> >>, << "bopf;", << "\\U0001d553" >> >>,
      << "bot;", << "\\u22a5" >> >>, << "bottom;", << "\\u22a5" >> >>,
      << "bowtie;", << "\\u22c8" >> >>, << "boxDL;", << "\\u2557" >> >>,
      << "boxDR;", << "\\u2554" >> >>, << "boxDl;", << "\\u2556" >> >>,
      << "boxDr;", << "\\u2553" >> >>, << "boxH;", << "\\u2550" >> >>,
      << "boxHD;", << "\\u2566" >> >>, << "boxHU;", << "\\u2569" >> >>,
      << "boxHd;", << "\\u2564" >> >>, << "boxHu;", << "\\u2567" >> >>,
      << "boxUL;", << "\\u255d" >> >>, << "boxUR;", << "\\u255a" >> >>,
      << "boxUl;", << "\\u255c" >> >>, << "boxUr;", << "\\u2559" >> >>,
      << "boxV;", << "\\u2551" >> >>, << "boxVH;", << "\\u256c" >> >>,
      << "boxVL;", << "\\u2563" >> >>, << "boxVR;", << "\\u2560" >> >>,
      << "boxVh;", << "\\u256b" >> >>, << "boxVl;", << "\\u2562" >> >>,
      << "boxVr;", << "\\u255f" >> >>, << "boxbox;", << "\\u29c9" >> >>,
      << "boxdL;", << "\\u2555" >> >>, << "boxdR;", << "\\u2552" >> >>,
      << "boxdl;", << "\\u2510" >> >>, << "boxdr;", << "\\u250c" >> >>,
      << "boxh;", << "\\u2500" >> >>, << "boxhD;", << "\\u2565" >> >>,
      << "boxhU;", << "\\u2568" >> >>, << "boxhd;", << "\\u252c" >> >>,
      << "boxhu;", << "\\u2534" >> >>, << "boxminus;", << "\\u229f" >> >>,
      << "boxplus;", << "\\u229e" >> >>, << "boxtimes;", << "\\u22a0" >> >>,
      << "boxuL;", << "\\u255b" >> >>, << "boxuR;", << "\\u2558" >> >>,
      << "boxul;", << "\\u2518" >> >>, << "boxur;", << "\\u2514" >> >>,
      << "boxv;", << "\\u2502" >> >>, << "boxvH;", << "\\u256a" >> >>,
      << "boxvL;", << "\\u2561" >> >>, << "boxvR;", << "\\u255e" >> >>,
      << "boxvh;", << "\\u253c" >> >>, << "boxvl;", << "\\u2524" >> >>,
      << "boxvr;", << "\\u251c" >> >>, << "bprime;", << "\\u2035" >> >>,
      << "breve;", << "\\u02d8" >> >>, << "brvbar", << "\\xa6" >> >>,
      << "brvbar;", << "\\xa6" >> >>, << "bscr;", << "\\U0001d4b7" >> >>,
      << "bsemi;", << "\\u204f" >> >>, << "bsim;", << "\\u223d" >> >>,
      << "bsime;", << "\\u22cd" >> >>, << "bsol;", << "\\" >> >>,
      << "bsolb;", << "\\u29c5" >> >>, << "bsolhsub;", << "\\u27c8" >> >>,
      << "bull;", << "\\u2022" >> >>, << "bullet;", << "\\u2022" >> >>,
      << "bump;", << "\\u224e" >> >>, << "bumpE;", << "\\u2aae" >> >>,
      << "bumpe;", << "\\u224f" >> >>, << "bumpeq;", << "\\u224f" >> >>,
      << "cacute;", << "\\u0107" >> >>, << "cap;", << "\\u2229" >> >>,
      << "capand;", << "\\u2a44" >> >>, << "capbrcup;", << "\\u2a49" >> >>,
      << "capcap;", << "\\u2a4b" >> >>, << "capcup;", << "\\u2a47" >> >>,
      << "capdot;", << "\\u2a40" >> >>,
      << "caps;", << "\\u2229", "\\ufe00" >> >>,
      << "caret;", << "\\u2041" >> >>, << "caron;", << "\\u02c7" >> >>,
      << "ccaps;", << "\\u2a4d" >> >>, << "ccaron;", << "\\u010d" >> >>,
      << "ccedil", << "\\xe7" >> >>, << "ccedil;", << "\\xe7" >> >>,
      << "ccirc;", << "\\u0109" >> >>, << "ccups;", << "\\u2a4c" >> >>,
      << "ccupssm;", << "\\u2a50" >> >>, << "cdot;", << "\\u010b" >> >>,
      << "cedil", << "\\xb8" >> >>, << "cedil;", << "\\xb8" >> >>,
      << "cemptyv;", << "\\u29b2" >> >>, << "cent", << "\\xa2" >> >>,
      << "cent;", << "\\xa2" >> >>, << "centerdot;", << "\\xb7" >> >>,
      << "cfr;", << "\\U0001d520" >> >>, << "chcy;", << "\\u0447" >> >>,
      << "check;", << "\\u2713" >> >>, << "checkmark;", << "\\u2713" >> >>,
      << "chi;", << "\\u03c7" >> >>, << "cir;", << "\\u25cb" >> >>,
      << "cirE;", << "\\u29c3" >> >>, << "circ;", << "\\u02c6" >> >>,
      << "circeq;", << "\\u2257" >> >>,
      << "circlearrowleft;", << "\\u21ba" >> >>,
      << "circlearrowright;", << "\\u21bb" >> >>,
      << "circledR;", << "\\xae" >> >>, << "circledS;", << "\\u24c8" >> >>,
      << "circledast;", << "\\u229b" >> >>,
      << "circledcirc;", << "\\u229a" >> >>,
      << "circleddash;", << "\\u229d" >> >>, << "cire;", << "\\u2257" >> >>,
      << "cirfnint;", << "\\u2a10" >> >>, << "cirmid;", << "\\u2aef" >> >>,
      << "cirscir;", << "\\u29c2" >> >>, << "clubs;", << "\\u2663" >> >>,
      << "clubsuit;", << "\\u2663" >> >>, << "colon;", << ":" >> >>,
      << "colone;", << "\\u2254" >> >>, << "coloneq;", << "\\u2254" >> >>,
      << "comma;", << "," >> >>, << "commat;", << "@" >> >>,
      << "comp;", << "\\u2201" >> >>, << "compfn;", << "\\u2218" >> >>,
      << "complement;", << "\\u2201" >> >>,
      << "complexes;", << "\\u2102" >> >>, << "cong;", << "\\u2245" >> >>,
      << "congdot;", << "\\u2a6d" >> >>, << "conint;", << "\\u222e" >> >>,
      << "copf;", << "\\U0001d554" >> >>, << "coprod;", << "\\u2210" >> >>,
      << "copy", << "\\xa9" >> >>, << "copy;", << "\\xa9" >> >>,
      << "copysr;", << "\\u2117" >> >>, << "crarr;", << "\\u21b5" >> >>,
      << "cross;", << "\\u2717" >> >>, << "cscr;", << "\\U0001d4b8" >> >>,
      << "csub;", << "\\u2acf" >> >>, << "csube;", << "\\u2ad1" >> >>,
      << "csup;", << "\\u2ad0" >> >>, << "csupe;", << "\\u2ad2" >> >>,
      << "ctdot;", << "\\u22ef" >> >>, << "cudarrl;", << "\\u2938" >> >>,
      << "cudarrr;", << "\\u2935" >> >>, << "cuepr;", << "\\u22de" >> >>,
      << "cuesc;", << "\\u22df" >> >>, << "cularr;", << "\\u21b6" >> >>,
      << "cularrp;", << "\\u293d" >> >>, << "cup;", << "\\u222a" >> >>,
      << "cupbrcap;", << "\\u2a48" >> >>, << "cupcap;", << "\\u2a46" >> >>,
      << "cupcup;", << "\\u2a4a" >> >>, << "cupdot;", << "\\u228d" >> >>,
      << "cupor;", << "\\u2a45" >> >>,
      << "cups;", << "\\u222a", "\\ufe00" >> >>,
      << "curarr;", << "\\u21b7" >> >>, << "curarrm;", << "\\u293c" >> >>,
      << "curlyeqprec;", << "\\u22de" >> >>,
      << "curlyeqsucc;", << "\\u22df" >> >>,
      << "curlyvee;", << "\\u22ce" >> >>,
      << "curlywedge;", << "\\u22cf" >> >>, << "curren", << "\\xa4" >> >>,
      << "curren;", << "\\xa4" >> >>,
      << "curvearrowleft;", << "\\u21b6" >> >>,
      << "curvearrowright;", << "\\u21b7" >> >>,
      << "cuvee;", << "\\u22ce" >> >>, << "cuwed;", << "\\u22cf" >> >>,
      << "cwconint;", << "\\u2232" >> >>, << "cwint;", << "\\u2231" >> >>,
      << "cylcty;", << "\\u232d" >> >>, << "dArr;", << "\\u21d3" >> >>,
      << "dHar;", << "\\u2965" >> >>, << "dagger;", << "\\u2020" >> >>,
      << "daleth;", << "\\u2138" >> >>, << "darr;", << "\\u2193" >> >>,
      << "dash;", << "\\u2010" >> >>, << "dashv;", << "\\u22a3" >> >>,
      << "dbkarow;", << "\\u290f" >> >>, << "dblac;", << "\\u02dd" >> >>,
      << "dcaron;", << "\\u010f" >> >>, << "dcy;", << "\\u0434" >> >>,
      << "dd;", << "\\u2146" >> >>, << "ddagger;", << "\\u2021" >> >>,
      << "ddarr;", << "\\u21ca" >> >>, << "ddotseq;", << "\\u2a77" >> >>,
      << "deg", << "\\xb0" >> >>, << "deg;", << "\\xb0" >> >>,
      << "delta;", << "\\u03b4" >> >>, << "demptyv;", << "\\u29b1" >> >>,
      << "dfisht;", << "\\u297f" >> >>, << "dfr;", << "\\U0001d521" >> >>,
      << "dharl;", << "\\u21c3" >> >>, << "dharr;", << "\\u21c2" >> >>,
      << "diam;", << "\\u22c4" >> >>, << "diamond;", << "\\u22c4" >> >>,
      << "diamondsuit;", << "\\u2666" >> >>, << "diams;", << "\\u2666" >> >>,
      << "die;", << "\\xa8" >> >>, << "digamma;", << "\\u03dd" >> >>,
      << "disin;", << "\\u22f2" >> >>, << "div;", << "\\xf7" >> >>,
      << "divide", << "\\xf7" >> >>, << "divide;", << "\\xf7" >> >>,
      << "divideontimes;", << "\\u22c7" >> >>,
      << "divonx;", << "\\u22c7" >> >>, << "djcy;", << "\\u0452" >> >>,
      << "dlcorn;", << "\\u231e" >> >>, << "dlcrop;", << "\\u230d" >> >>,
      << "dollar;", << "$" >> >>, << "dopf;", << "\\U0001d555" >> >>,
      << "dot;", << "\\u02d9" >> >>, << "doteq;", << "\\u2250" >> >>,
      << "doteqdot;", << "\\u2251" >> >>, << "dotminus;", << "\\u2238" >> >>,
      << "dotplus;", << "\\u2214" >> >>, << "dotsquare;", << "\\u22a1" >> >>,
      << "doublebarwedge;", << "\\u2306" >> >>,
      << "downarrow;", << "\\u2193" >> >>,
      << "downdownarrows;", << "\\u21ca" >> >>,
      << "downharpoonleft;", << "\\u21c3" >> >>,
      << "downharpoonright;", << "\\u21c2" >> >>,
      << "drbkarow;", << "\\u2910" >> >>, << "drcorn;", << "\\u231f" >> >>,
      << "drcrop;", << "\\u230c" >> >>, << "dscr;", << "\\U0001d4b9" >> >>,
      << "dscy;", << "\\u0455" >> >>, << "dsol;", << "\\u29f6" >> >>,
      << "dstrok;", << "\\u0111" >> >>, << "dtdot;", << "\\u22f1" >> >>,
      << "dtri;", << "\\u25bf" >> >>, << "dtrif;", << "\\u25be" >> >>,
      << "duarr;", << "\\u21f5" >> >>, << "duhar;", << "\\u296f" >> >>,
      << "dwangle;", << "\\u29a6" >> >>, << "dzcy;", << "\\u045f" >> >>,
      << "dzigrarr;", << "\\u27ff" >> >>, << "eDDot;", << "\\u2a77" >> >>,
      << "eDot;", << "\\u2251" >> >>, << "eacute", << "\\xe9" >> >>,
      << "eacute;", << "\\xe9" >> >>, << "easter;", << "\\u2a6e" >> >>,
      << "ecaron;", << "\\u011b" >> >>, << "ecir;", << "\\u2256" >> >>,
      << "ecirc", << "\\xea" >> >>, << "ecirc;", << "\\xea" >> >>,
      << "ecolon;", << "\\u2255" >> >>, << "ecy;", << "\\u044d" >> >>,
      << "edot;", << "\\u0117" >> >>, << "ee;", << "\\u2147" >> >>,
      << "efDot;", << "\\u2252" >> >>, << "efr;", << "\\U0001d522" >> >>,
      << "eg;", << "\\u2a9a" >> >>, << "egrave", << "\\xe8" >> >>,
      << "egrave;", << "\\xe8" >> >>, << "egs;", << "\\u2a96" >> >>,
      << "egsdot;", << "\\u2a98" >> >>, << "el;", << "\\u2a99" >> >>,
      << "elinters;", << "\\u23e7" >> >>, << "ell;", << "\\u2113" >> >>,
      << "els;", << "\\u2a95" >> >>, << "elsdot;", << "\\u2a97" >> >>,
      << "emacr;", << "\\u0113" >> >>, << "empty;", << "\\u2205" >> >>,
      << "emptyset;", << "\\u2205" >> >>, << "emptyv;", << "\\u2205" >> >>,
      << "emsp13;", << "\\u2004" >> >>, << "emsp14;", << "\\u2005" >> >>,
      << "emsp;", << "\\u2003" >> >>, << "eng;", << "\\u014b" >> >>,
      << "ensp;", << "\\u2002" >> >>, << "eogon;", << "\\u0119" >> >>,
      << "eopf;", << "\\U0001d556" >> >>, << "epar;", << "\\u22d5" >> >>,
      << "eparsl;", << "\\u29e3" >> >>, << "eplus;", << "\\u2a71" >> >>,
      << "epsi;", << "\\u03b5" >> >>, << "epsilon;", << "\\u03b5" >> >>,
      << "epsiv;", << "\\u03f5" >> >>, << "eqcirc;", << "\\u2256" >> >>,
      << "eqcolon;", << "\\u2255" >> >>, << "eqsim;", << "\\u2242" >> >>,
      << "eqslantgtr;", << "\\u2a96" >> >>,
      << "eqslantless;", << "\\u2a95" >> >>, << "equals;", << "=" >> >>,
      << "equest;", << "\\u225f" >> >>, << "equiv;", << "\\u2261" >> >>,
      << "equivDD;", << "\\u2a78" >> >>, << "eqvparsl;", << "\\u29e5" >> >>,
      << "erDot;", << "\\u2253" >> >>, << "erarr;", << "\\u2971" >> >>,
      << "escr;", << "\\u212f" >> >>, << "esdot;", << "\\u2250" >> >>,
      << "esim;", << "\\u2242" >> >>, << "eta;", << "\\u03b7" >> >>,
      << "eth", << "\\xf0" >> >>, << "eth;", << "\\xf0" >> >>,
      << "euml", << "\\xeb" >> >>, << "euml;", << "\\xeb" >> >>,
      << "euro;", << "\\u20ac" >> >>, << "excl;", << "!" >> >>,
      << "exist;", << "\\u2203" >> >>, << "expectation;", << "\\u2130" >> >>,
      << "exponentiale;", << "\\u2147" >> >>,
      << "fallingdotseq;", << "\\u2252" >> >>, << "fcy;", << "\\u0444" >> >>,
      << "female;", << "\\u2640" >> >>, << "ffilig;", << "\\ufb03" >> >>,
      << "fflig;", << "\\ufb00" >> >>, << "ffllig;", << "\\ufb04" >> >>,
      << "ffr;", << "\\U0001d523" >> >>, << "filig;", << "\\ufb01" >> >>,
      << "fjlig;", << "f", "j" >> >>, << "flat;", << "\\u266d" >> >>,
      << "fllig;", << "\\ufb02" >> >>, << "fltns;", << "\\u25b1" >> >>,
      << "fnof;", << "\\u0192" >> >>, << "fopf;", << "\\U0001d557" >> >>,
      << "forall;", << "\\u2200" >> >>, << "fork;", << "\\u22d4" >> >>,
      << "forkv;", << "\\u2ad9" >> >>, << "fpartint;", << "\\u2a0d" >> >>,
      << "frac12", << "\\xbd" >> >>, << "frac12;", << "\\xbd" >> >>,
      << "frac13;", << "\\u2153" >> >>, << "frac14", << "\\xbc" >> >>,
      << "frac14;", << "\\xbc" >> >>, << "frac15;", << "\\u2155" >> >>,
      << "frac16;", << "\\u2159" >> >>, << "frac18;", << "\\u215b" >> >>,
      << "frac23;", << "\\u2154" >> >>, << "frac25;", << "\\u2156" >> >>,
      << "frac34", << "\\xbe" >> >>, << "frac34;", << "\\xbe" >> >>,
      << "frac35;", << "\\u2157" >> >>, << "frac38;", << "\\u215c" >> >>,
      << "frac45;", << "\\u2158" >> >>, << "frac56;", << "\\u215a" >> >>,
      << "frac58;", << "\\u215d" >> >>, << "frac78;", << "\\u215e" >> >>,
      << "frasl;", << "\\u2044" >> >>, << "frown;", << "\\u2322" >> >>,
      << "fscr;", << "\\U0001d4bb" >> >>, << "gE;", << "\\u2267" >> >>,
      << "gEl;", << "\\u2a8c" >> >>, << "gacute;", << "\\u01f5" >> >>,
      << "gamma;", << "\\u03b3" >> >>, << "gammad;", << "\\u03dd" >> >>,
      << "gap;", << "\\u2a86" >> >>, << "gbreve;", << "\\u011f" >> >>,
      << "gcirc;", << "\\u011d" >> >>, << "gcy;", << "\\u0433" >> >>,
      << "gdot;", << "\\u0121" >> >>, << "ge;", << "\\u2265" >> >>,
      << "gel;", << "\\u22db" >> >>, << "geq;", << "\\u2265" >> >>,
      << "geqq;", << "\\u2267" >> >>, << "geqslant;", << "\\u2a7e" >> >>,
      << "ges;", << "\\u2a7e" >> >>, << "gescc;", << "\\u2aa9" >> >>,
      << "gesdot;", << "\\u2a80" >> >>, << "gesdoto;", << "\\u2a82" >> >>,
      << "gesdotol;", << "\\u2a84" >> >>,
      << "gesl;", << "\\u22db", "\\ufe00" >> >>,
      << "gesles;", << "\\u2a94" >> >>, << "gfr;", << "\\U0001d524" >> >>,
      << "gg;", << "\\u226b" >> >>, << "ggg;", << "\\u22d9" >> >>,
      << "gimel;", << "\\u2137" >> >>, << "gjcy;", << "\\u0453" >> >>,
      << "gl;", << "\\u2277" >> >>, << "glE;", << "\\u2a92" >> >>,
      << "gla;", << "\\u2aa5" >> >>, << "glj;", << "\\u2aa4" >> >>,
      << "gnE;", << "\\u2269" >> >>, << "gnap;", << "\\u2a8a" >> >>,
      << "gnapprox;", << "\\u2a8a" >> >>, << "gne;", << "\\u2a88" >> >>,
      << "gneq;", << "\\u2a88" >> >>, << "gneqq;", << "\\u2269" >> >>,
      << "gnsim;", << "\\u22e7" >> >>, << "gopf;", << "\\U0001d558" >> >>,
      << "grave;", << "\\x60" >> >>, << "gscr;", << "\\u210a" >> >>,
      << "gsim;", << "\\u2273" >> >>, << "gsime;", << "\\u2a8e" >> >>,
      << "gsiml;", << "\\u2a90" >> >>, << "gt", << ">" >> >>,
      << "gt;", << ">" >> >>, << "gtcc;", << "\\u2aa7" >> >>,
      << "gtcir;", << "\\u2a7a" >> >>, << "gtdot;", << "\\u22d7" >> >>,
      << "gtlPar;", << "\\u2995" >> >>, << "gtquest;", << "\\u2a7c" >> >>,
      << "gtrapprox;", << "\\u2a86" >> >>, << "gtrarr;", << "\\u2978" >> >>,
      << "gtrdot;", << "\\u22d7" >> >>, << "gtreqless;", << "\\u22db" >> >>,
      << "gtreqqless;", << "\\u2a8c" >> >>,
      << "gtrless;", << "\\u2277" >> >>, << "gtrsim;", << "\\u2273" >> >>,
      << "gvertneqq;", << "\\u2269", "\\ufe00" >> >>,
      << "gvnE;", << "\\u2269", "\\ufe00" >> >>,
      << "hArr;", << "\\u21d4" >> >>, << "hairsp;", << "\\u200a" >> >>,
      << "half;", << "\\xbd" >> >>, << "hamilt;", << "\\u210b" >> >>,
      << "hardcy;", << "\\u044a" >> >>, << "harr;", << "\\u2194" >> >>,
      << "harrcir;", << "\\u2948" >> >>, << "harrw;", << "\\u21ad" >> >>,
      << "hbar;", << "\\u210f" >> >>, << "hcirc;", << "\\u0125" >> >>,
      << "hearts;", << "\\u2665" >> >>, << "heartsuit;", << "\\u2665" >> >>,
      << "hellip;", << "\\u2026" >> >>, << "hercon;", << "\\u22b9" >> >>,
      << "hfr;", << "\\U0001d525" >> >>, << "hksearow;", << "\\u2925" >> >>,
      << "hkswarow;", << "\\u2926" >> >>, << "hoarr;", << "\\u21ff" >> >>,
      << "homtht;", << "\\u223b" >> >>,
      << "hookleftarrow;", << "\\u21a9" >> >>,
      << "hookrightarrow;", << "\\u21aa" >> >>,
      << "hopf;", << "\\U0001d559" >> >>, << "horbar;", << "\\u2015" >> >>,
      << "hscr;", << "\\U0001d4bd" >> >>, << "hslash;", << "\\u210f" >> >>,
      << "hstrok;", << "\\u0127" >> >>, << "hybull;", << "\\u2043" >> >>,
      << "hyphen;", << "\\u2010" >> >>, << "iacute", << "\\xed" >> >>,
      << "iacute;", << "\\xed" >> >>, << "ic;", << "\\u2063" >> >>,
      << "icirc", << "\\xee" >> >>, << "icirc;", << "\\xee" >> >>,
      << "icy;", << "\\u0438" >> >>, << "iecy;", << "\\u0435" >> >>,
      << "iexcl", << "\\xa1" >> >>, << "iexcl;", << "\\xa1" >> >>,
      << "iff;", << "\\u21d4" >> >>, << "ifr;", << "\\U0001d526" >> >>,
      << "igrave", << "\\xec" >> >>, << "igrave;", << "\\xec" >> >>,
      << "ii;", << "\\u2148" >> >>, << "iiiint;", << "\\u2a0c" >> >>,
      << "iiint;", << "\\u222d" >> >>, << "iinfin;", << "\\u29dc" >> >>,
      << "iiota;", << "\\u2129" >> >>, << "ijlig;", << "\\u0133" >> >>,
      << "imacr;", << "\\u012b" >> >>, << "image;", << "\\u2111" >> >>,
      << "imagline;", << "\\u2110" >> >>, << "imagpart;", << "\\u2111" >> >>,
      << "imath;", << "\\u0131" >> >>, << "imof;", << "\\u22b7" >> >>,
      << "imped;", << "\\u01b5" >> >>, << "in;", << "\\u2208" >> >>,
      << "incare;", << "\\u2105" >> >>, << "infin;", << "\\u221e" >> >>,
      << "infintie;", << "\\u29dd" >> >>, << "inodot;", << "\\u0131" >> >>,
      << "int;", << "\\u222b" >> >>, << "intcal;", << "\\u22ba" >> >>,
      << "integers;", << "\\u2124" >> >>, << "intercal;", << "\\u22ba" >> >>,
      << "intlarhk;", << "\\u2a17" >> >>, << "intprod;", << "\\u2a3c" >> >>,
      << "iocy;", << "\\u0451" >> >>, << "iogon;", << "\\u012f" >> >>,
      << "iopf;", << "\\U0001d55a" >> >>, << "iota;", << "\\u03b9" >> >>,
      << "iprod;", << "\\u2a3c" >> >>, << "iquest", << "\\xbf" >> >>,
      << "iquest;", << "\\xbf" >> >>, << "iscr;", << "\\U0001d4be" >> >>,
      << "isin;", << "\\u2208" >> >>, << "isinE;", << "\\u22f9" >> >>,
      << "isindot;", << "\\u22f5" >> >>, << "isins;", << "\\u22f4" >> >>,
      << "isinsv;", << "\\u22f3" >> >>, << "isinv;", << "\\u2208" >> >>,
      << "it;", << "\\u2062" >> >>, << "itilde;", << "\\u0129" >> >>,
      << "iukcy;", << "\\u0456" >> >>, << "iuml", << "\\xef" >> >>,
      << "iuml;", << "\\xef" >> >>, << "jcirc;", << "\\u0135" >> >>,
      << "jcy;", << "\\u0439" >> >>, << "jfr;", << "\\U0001d527" >> >>,
      << "jmath;", << "\\u0237" >> >>, << "jopf;", << "\\U0001d55b" >> >>,
      << "jscr;", << "\\U0001d4bf" >> >>, << "jsercy;", << "\\u0458" >> >>,
      << "jukcy;", << "\\u0454" >> >>, << "kappa;", << "\\u03ba" >> >>,
      << "kappav;", << "\\u03f0" >> >>, << "kcedil;", << "\\u0137" >> >>,
      << "kcy;", << "\\u043a" >> >>, << "kfr;", << "\\U0001d528" >> >>,
      << "kgreen;", << "\\u0138" >> >>, << "khcy;", << "\\u0445" >> >>,
      << "kjcy;", << "\\u045c" >> >>, << "kopf;", << "\\U0001d55c" >> >>,
      << "kscr;", << "\\U0001d4c0" >> >>, << "lAarr;", << "\\u21da" >> >>,
      << "lArr;", << "\\u21d0" >> >>, << "lAtail;", << "\\u291b" >> >>,
      << "lBarr;", << "\\u290e" >> >>, << "lE;", << "\\u2266" >> >>,
      << "lEg;", << "\\u2a8b" >> >>, << "lHar;", << "\\u2962" >> >>,
      << "lacute;", << "\\u013a" >> >>, << "laemptyv;", << "\\u29b4" >> >>,
      << "lagran;", << "\\u2112" >> >>, << "lambda;", << "\\u03bb" >> >>,
      << "lang;", << "\\u27e8" >> >>, << "langd;", << "\\u2991" >> >>,
      << "langle;", << "\\u27e8" >> >>, << "lap;", << "\\u2a85" >> >>,
      << "laquo", << "\\xab" >> >>, << "laquo;", << "\\xab" >> >>,
      << "larr;", << "\\u2190" >> >>, << "larrb;", << "\\u21e4" >> >>,
      << "larrbfs;", << "\\u291f" >> >>, << "larrfs;", << "\\u291d" >> >>,
      << "larrhk;", << "\\u21a9" >> >>, << "larrlp;", << "\\u21ab" >> >>,
      << "larrpl;", << "\\u2939" >> >>, << "larrsim;", << "\\u2973" >> >>,
      << "larrtl;", << "\\u21a2" >> >>, << "lat;", << "\\u2aab" >> >>,
      << "latail;", << "\\u2919" >> >>, << "late;", << "\\u2aad" >> >>,
      << "lates;", << "\\u2aad", "\\ufe00" >> >>,
      << "lbarr;", << "\\u290c" >> >>, << "lbbrk;", << "\\u2772" >> >>,
      << "lbrace;", << "{" >> >>, << "lbrack;", << "[" >> >>,
      << "lbrke;", << "\\u298b" >> >>, << "lbrksld;", << "\\u298f" >> >>,
      << "lbrkslu;", << "\\u298d" >> >>, << "lcaron;", << "\\u013e" >> >>,
      << "lcedil;", << "\\u013c" >> >>, << "lceil;", << "\\u2308" >> >>,
      << "lcub;", << "{" >> >>, << "lcy;", << "\\u043b" >> >>,
      << "ldca;", << "\\u2936" >> >>, << "ldquo;", << "\\u201c" >> >>,
      << "ldquor;", << "\\u201e" >> >>, << "ldrdhar;", << "\\u2967" >> >>,
      << "ldrushar;", << "\\u294b" >> >>, << "ldsh;", << "\\u21b2" >> >>,
      << "le;", << "\\u2264" >> >>, << "leftarrow;", << "\\u2190" >> >>,
      << "leftarrowtail;", << "\\u21a2" >> >>,
      << "leftharpoondown;", << "\\u21bd" >> >>,
      << "leftharpoonup;", << "\\u21bc" >> >>,
      << "leftleftarrows;", << "\\u21c7" >> >>,
      << "leftrightarrow;", << "\\u2194" >> >>,
      << "leftrightarrows;", << "\\u21c6" >> >>,
      << "leftrightharpoons;", << "\\u21cb" >> >>,
      << "leftrightsquigarrow;", << "\\u21ad" >> >>,
      << "leftthreetimes;", << "\\u22cb" >> >>,
      << "leg;", << "\\u22da" >> >>, << "leq;", << "\\u2264" >> >>,
      << "leqq;", << "\\u2266" >> >>, << "leqslant;", << "\\u2a7d" >> >>,
      << "les;", << "\\u2a7d" >> >>, << "lescc;", << "\\u2aa8" >> >>,
      << "lesdot;", << "\\u2a7f" >> >>, << "lesdoto;", << "\\u2a81" >> >>,
      << "lesdotor;", << "\\u2a83" >> >>,
      << "lesg;", << "\\u22da", "\\ufe00" >> >>,
      << "lesges;", << "\\u2a93" >> >>, << "lessapprox;", << "\\u2a85" >> >>,
      << "lessdot;", << "\\u22d6" >> >>, << "lesseqgtr;", << "\\u22da" >> >>,
      << "lesseqqgtr;", << "\\u2a8b" >> >>,
      << "lessgtr;", << "\\u2276" >> >>, << "lesssim;", << "\\u2272" >> >>,
      << "lfisht;", << "\\u297c" >> >>, << "lfloor;", << "\\u230a" >> >>,
      << "lfr;", << "\\U0001d529" >> >>, << "lg;", << "\\u2276" >> >>,
      << "lgE;", << "\\u2a91" >> >>, << "lhard;", << "\\u21bd" >> >>,
      << "lharu;", << "\\u21bc" >> >>, << "lharul;", << "\\u296a" >> >>,
      << "lhblk;", << "\\u2584" >> >>, << "ljcy;", << "\\u0459" >> >>,
      << "ll;", << "\\u226a" >> >>, << "llarr;", << "\\u21c7" >> >>,
      << "llcorner;", << "\\u231e" >> >>, << "llhard;", << "\\u296b" >> >>,
      << "lltri;", << "\\u25fa" >> >>, << "lmidot;", << "\\u0140" >> >>,
      << "lmoust;", << "\\u23b0" >> >>, << "lmoustache;", << "\\u23b0" >> >>,
      << "lnE;", << "\\u2268" >> >>, << "lnap;", << "\\u2a89" >> >>,
      << "lnapprox;", << "\\u2a89" >> >>, << "lne;", << "\\u2a87" >> >>,
      << "lneq;", << "\\u2a87" >> >>, << "lneqq;", << "\\u2268" >> >>,
      << "lnsim;", << "\\u22e6" >> >>, << "loang;", << "\\u27ec" >> >>,
      << "loarr;", << "\\u21fd" >> >>, << "lobrk;", << "\\u27e6" >> >>,
      << "longleftarrow;", << "\\u27f5" >> >>,
      << "longleftrightarrow;", << "\\u27f7" >> >>,
      << "longmapsto;", << "\\u27fc" >> >>,
      << "longrightarrow;", << "\\u27f6" >> >>,
      << "looparrowleft;", << "\\u21ab" >> >>,
      << "looparrowright;", << "\\u21ac" >> >>,
      << "lopar;", << "\\u2985" >> >>, << "lopf;", << "\\U0001d55d" >> >>,
      << "loplus;", << "\\u2a2d" >> >>, << "lotimes;", << "\\u2a34" >> >>,
      << "lowast;", << "\\u2217" >> >>, << "lowbar;", << "_" >> >>,
      << "loz;", << "\\u25ca" >> >>, << "lozenge;", << "\\u25ca" >> >>,
      << "lozf;", << "\\u29eb" >> >>, << "lpar;", << "(" >> >>,
      << "lparlt;", << "\\u2993" >> >>, << "lrarr;", << "\\u21c6" >> >>,
      << "lrcorner;", << "\\u231f" >> >>, << "lrhar;", << "\\u21cb" >> >>,
      << "lrhard;", << "\\u296d" >> >>, << "lrm;", << "\\u200e" >> >>,
      << "lrtri;", << "\\u22bf" >> >>, << "lsaquo;", << "\\u2039" >> >>,
      << "lscr;", << "\\U0001d4c1" >> >>, << "lsh;", << "\\u21b0" >> >>,
      << "lsim;", << "\\u2272" >> >>, << "lsime;", << "\\u2a8d" >> >>,
      << "lsimg;", << "\\u2a8f" >> >>, << "lsqb;", << "[" >> >>,
      << "lsquo;", << "\\u2018" >> >>, << "lsquor;", << "\\u201a" >> >>,
      << "lstrok;", << "\\u0142" >> >>, << "lt", << "<" >> >>,
      << "lt;", << "<" >> >>, << "ltcc;", << "\\u2aa6" >> >>,
      << "ltcir;", << "\\u2a79" >> >>, << "ltdot;", << "\\u22d6" >> >>,
      << "lthree;", << "\\u22cb" >> >>, << "ltimes;", << "\\u22c9" >> >>,
      << "ltlarr;", << "\\u2976" >> >>, << "ltquest;", << "\\u2a7b" >> >>,
      << "ltrPar;", << "\\u2996" >> >>, << "ltri;", << "\\u25c3" >> >>,
      << "ltrie;", << "\\u22b4" >> >>, << "ltrif;", << "\\u25c2" >> >>,
      << "lurdshar;", << "\\u294a" >> >>, << "luruhar;", << "\\u2966" >> >>,
      << "lvertneqq;", << "\\u2268", "\\ufe00" >> >>,
      << "lvnE;", << "\\u2268", "\\ufe00" >> >>,
      << "mDDot;", << "\\u223a" >> >>, << "macr", << "\\xaf" >> >>,
      << "macr;", << "\\xaf" >> >>, << "male;", << "\\u2642" >> >>,
      << "malt;", << "\\u2720" >> >>, << "maltese;", << "\\u2720" >> >>,
      << "map;", << "\\u21a6" >> >>, << "mapsto;", << "\\u21a6" >> >>,
      << "mapstodown;", << "\\u21a7" >> >>,
      << "mapstoleft;", << "\\u21a4" >> >>,
      << "mapstoup;", << "\\u21a5" >> >>, << "marker;", << "\\u25ae" >> >>,
      << "mcomma;", << "\\u2a29" >> >>, << "mcy;", << "\\u043c" >> >>,
      << "mdash;", << "\\u2014" >> >>,
      << "measuredangle;", << "\\u2221" >> >>,
      << "mfr;", << "\\U0001d52a" >> >>, << "mho;", << "\\u2127" >> >>,
      << "micro", << "\\xb5" >> >>, << "micro;", << "\\xb5" >> >>,
      << "mid;", << "\\u2223" >> >>, << "midast;", << "*" >> >>,
      << "midcir;", << "\\u2af0" >> >>, << "middot", << "\\xb7" >> >>,
      << "middot;", << "\\xb7" >> >>, << "minus;", << "\\u2212" >> >>,
      << "minusb;", << "\\u229f" >> >>, << "minusd;", << "\\u2238" >> >>,
      << "minusdu;", << "\\u2a2a" >> >>, << "mlcp;", << "\\u2adb" >> >>,
      << "mldr;", << "\\u2026" >> >>, << "mnplus;", << "\\u2213" >> >>,
      << "models;", << "\\u22a7" >> >>, << "mopf;", << "\\U0001d55e" >> >>,
      << "mp;", << "\\u2213" >> >>, << "mscr;", << "\\U0001d4c2" >> >>,
      << "mstpos;", << "\\u223e" >> >>, << "mu;", << "\\u03bc" >> >>,
      << "multimap;", << "\\u22b8" >> >>, << "mumap;", << "\\u22b8" >> >>,
      << "nGg;", << "\\u22d9", "\\u0338" >> >>,
      << "nGt;", << "\\u226b", "\\u20d2" >> >>,
      << "nGtv;", << "\\u226b", "\\u0338" >> >>,
      << "nLeftarrow;", << "\\u21cd" >> >>,
      << "nLeftrightarrow;", << "\\u21ce" >> >>,
      << "nLl;", << "\\u22d8", "\\u0338" >> >>,
      << "nLt;", << "\\u226a", "\\u20d2" >> >>,
      << "nLtv;", << "\\u226a", "\\u0338" >> >>,
      << "nRightarrow;", << "\\u21cf" >> >>,
      << "nVDash;", << "\\u22af" >> >>, << "nVdash;", << "\\u22ae" >> >>,
      << "nabla;", << "\\u2207" >> >>, << "nacute;", << "\\u0144" >> >>,
      << "nang;", << "\\u2220", "\\u20d2" >> >>,
      << "nap;", << "\\u2249" >> >>,
      << "napE;", << "\\u2a70", "\\u0338" >> >>,
      << "napid;", << "\\u224b", "\\u0338" >> >>,
      << "napos;", << "\\u0149" >> >>, << "napprox;", << "\\u2249" >> >>,
      << "natur;", << "\\u266e" >> >>, << "natural;", << "\\u266e" >> >>,
      << "naturals;", << "\\u2115" >> >>, << "nbsp", << "\\xa0" >> >>,
      << "nbsp;", << "\\xa0" >> >>,
      << "nbump;", << "\\u224e", "\\u0338" >> >>,
      << "nbumpe;", << "\\u224f", "\\u0338" >> >>,
      << "ncap;", << "\\u2a43" >> >>, << "ncaron;", << "\\u0148" >> >>,
      << "ncedil;", << "\\u0146" >> >>, << "ncong;", << "\\u2247" >> >>,
      << "ncongdot;", << "\\u2a6d", "\\u0338" >> >>,
      << "ncup;", << "\\u2a42" >> >>, << "ncy;", << "\\u043d" >> >>,
      << "ndash;", << "\\u2013" >> >>, << "ne;", << "\\u2260" >> >>,
      << "neArr;", << "\\u21d7" >> >>, << "nearhk;", << "\\u2924" >> >>,
      << "nearr;", << "\\u2197" >> >>, << "nearrow;", << "\\u2197" >> >>,
      << "nedot;", << "\\u2250", "\\u0338" >> >>,
      << "nequiv;", << "\\u2262" >> >>, << "nesear;", << "\\u2928" >> >>,
      << "nesim;", << "\\u2242", "\\u0338" >> >>,
      << "nexist;", << "\\u2204" >> >>, << "nexists;", << "\\u2204" >> >>,
      << "nfr;", << "\\U0001d52b" >> >>,
      << "ngE;", << "\\u2267", "\\u0338" >> >>,
      << "nge;", << "\\u2271" >> >>, << "ngeq;", << "\\u2271" >> >>,
      << "ngeqq;", << "\\u2267", "\\u0338" >> >>,
      << "ngeqslant;", << "\\u2a7e", "\\u0338" >> >>,
      << "nges;", << "\\u2a7e", "\\u0338" >> >>,
      << "ngsim;", << "\\u2275" >> >>, << "ngt;", << "\\u226f" >> >>,
      << "ngtr;", << "\\u226f" >> >>, << "nhArr;", << "\\u21ce" >> >>,
      << "nharr;", << "\\u21ae" >> >>, << "nhpar;", << "\\u2af2" >> >>,
      << "ni;", << "\\u220b" >> >>, << "nis;", << "\\u22fc" >> >>,
      << "nisd;", << "\\u22fa" >> >>, << "niv;", << "\\u220b" >> >>,
      << "njcy;", << "\\u045a" >> >>, << "nlArr;", << "\\u21cd" >> >>,
      << "nlE;", << "\\u2266", "\\u0338" >> >>,
      << "nlarr;", << "\\u219a" >> >>, << "nldr;", << "\\u2025" >> >>,
      << "nle;", << "\\u2270" >> >>, << "nleftarrow;", << "\\u219a" >> >>,
      << "nleftrightarrow;", << "\\u21ae" >> >>,
      << "nleq;", << "\\u2270" >> >>,
      << "nleqq;", << "\\u2266", "\\u0338" >> >>,
      << "nleqslant;", << "\\u2a7d", "\\u0338" >> >>,
      << "nles;", << "\\u2a7d", "\\u0338" >> >>,
      << "nless;", << "\\u226e" >> >>, << "nlsim;", << "\\u2274" >> >>,
      << "nlt;", << "\\u226e" >> >>, << "nltri;", << "\\u22ea" >> >>,
      << "nltrie;", << "\\u22ec" >> >>, << "nmid;", << "\\u2224" >> >>,
      << "nopf;", << "\\U0001d55f" >> >>, << "not", << "\\xac" >> >>,
      << "not;", << "\\xac" >> >>, << "notin;", << "\\u2209" >> >>,
      << "notinE;", << "\\u22f9", "\\u0338" >> >>,
      << "notindot;", << "\\u22f5", "\\u0338" >> >>,
      << "notinva;", << "\\u2209" >> >>, << "notinvb;", << "\\u22f7" >> >>,
      << "notinvc;", << "\\u22f6" >> >>, << "notni;", << "\\u220c" >> >>,
      << "notniva;", << "\\u220c" >> >>, << "notnivb;", << "\\u22fe" >> >>,
      << "notnivc;", << "\\u22fd" >> >>, << "npar;", << "\\u2226" >> >>,
      << "nparallel;", << "\\u2226" >> >>,
      << "nparsl;", << "\\u2afd", "\\u20e5" >> >>,
      << "npart;", << "\\u2202", "\\u0338" >> >>,
      << "npolint;", << "\\u2a14" >> >>, << "npr;", << "\\u2280" >> >>,
      << "nprcue;", << "\\u22e0" >> >>,
      << "npre;", << "\\u2aaf", "\\u0338" >> >>,
      << "nprec;", << "\\u2280" >> >>,
      << "npreceq;", << "\\u2aaf", "\\u0338" >> >>,
      << "nrArr;", << "\\u21cf" >> >>, << "nrarr;", << "\\u219b" >> >>,
      << "nrarrc;", << "\\u2933", "\\u0338" >> >>,
      << "nrarrw;", << "\\u219d", "\\u0338" >> >>,
      << "nrightarrow;", << "\\u219b" >> >>, << "nrtri;", << "\\u22eb" >> >>,
      << "nrtrie;", << "\\u22ed" >> >>, << "nsc;", << "\\u2281" >> >>,
      << "nsccue;", << "\\u22e1" >> >>,
      << "nsce;", << "\\u2ab0", "\\u0338" >> >>,
      << "nscr;", << "\\U0001d4c3" >> >>,
      << "nshortmid;", << "\\u2224" >> >>,
      << "nshortparallel;", << "\\u2226" >> >>,
      << "nsim;", << "\\u2241" >> >>, << "nsime;", << "\\u2244" >> >>,
      << "nsimeq;", << "\\u2244" >> >>, << "nsmid;", << "\\u2224" >> >>,
      << "nspar;", << "\\u2226" >> >>, << "nsqsube;", << "\\u22e2" >> >>,
      << "nsqsupe;", << "\\u22e3" >> >>, << "nsub;", << "\\u2284" >> >>,
      << "nsubE;", << "\\u2ac5", "\\u0338" >> >>,
      << "nsube;", << "\\u2288" >> >>,
      << "nsubset;", << "\\u2282", "\\u20d2" >> >>,
      << "nsubseteq;", << "\\u2288" >> >>,
      << "nsubseteqq;", << "\\u2ac5", "\\u0338" >> >>,
      << "nsucc;", << "\\u2281" >> >>,
      << "nsucceq;", << "\\u2ab0", "\\u0338" >> >>,
      << "nsup;", << "\\u2285" >> >>,
      << "nsupE;", << "\\u2ac6", "\\u0338" >> >>,
      << "nsupe;", << "\\u2289" >> >>,
      << "nsupset;", << "\\u2283", "\\u20d2" >> >>,
      << "nsupseteq;", << "\\u2289" >> >>,
      << "nsupseteqq;", << "\\u2ac6", "\\u0338" >> >>,
      << "ntgl;", << "\\u2279" >> >>, << "ntilde", << "\\xf1" >> >>,
      << "ntilde;", << "\\xf1" >> >>, << "ntlg;", << "\\u2278" >> >>,
      << "ntriangleleft;", << "\\u22ea" >> >>,
      << "ntrianglelefteq;", << "\\u22ec" >> >>,
      << "ntriangleright;", << "\\u22eb" >> >>,
      << "ntrianglerighteq;", << "\\u22ed" >> >>,
      << "nu;", << "\\u03bd" >> >>, << "num;", << "#" >> >>,
      << "numero;", << "\\u2116" >> >>, << "numsp;", << "\\u2007" >> >>,
      << "nvDash;", << "\\u22ad" >> >>, << "nvHarr;", << "\\u2904" >> >>,
      << "nvap;", << "\\u224d", "\\u20d2" >> >>,
      << "nvdash;", << "\\u22ac" >> >>,
      << "nvge;", << "\\u2265", "\\u20d2" >> >>,
      << "nvgt;", << ">", "\\u20d2" >> >>, << "nvinfin;", << "\\u29de" >> >>,
      << "nvlArr;", << "\\u2902" >> >>,
      << "nvle;", << "\\u2264", "\\u20d2" >> >>,
      << "nvlt;", << "<", "\\u20d2" >> >>,
      << "nvltrie;", << "\\u22b4", "\\u20d2" >> >>,
      << "nvrArr;", << "\\u2903" >> >>,
      << "nvrtrie;", << "\\u22b5", "\\u20d2" >> >>,
      << "nvsim;", << "\\u223c", "\\u20d2" >> >>,
      << "nwArr;", << "\\u21d6" >> >>, << "nwarhk;", << "\\u2923" >> >>,
      << "nwarr;", << "\\u2196" >> >>, << "nwarrow;", << "\\u2196" >> >>,
      << "nwnear;", << "\\u2927" >> >>, << "oS;", << "\\u24c8" >> >>,
      << "oacute", << "\\xf3" >> >>, << "oacute;", << "\\xf3" >> >>,
      << "oast;", << "\\u229b" >> >>, << "ocir;", << "\\u229a" >> >>,
      << "ocirc", << "\\xf4" >> >>, << "ocirc;", << "\\xf4" >> >>,
      << "ocy;", << "\\u043e" >> >>, << "odash;", << "\\u229d" >> >>,
      << "odblac;", << "\\u0151" >> >>, << "odiv;", << "\\u2a38" >> >>,
      << "odot;", << "\\u2299" >> >>, << "odsold;", << "\\u29bc" >> >>,
      << "oelig;", << "\\u0153" >> >>, << "ofcir;", << "\\u29bf" >> >>,
      << "ofr;", << "\\U0001d52c" >> >>, << "ogon;", << "\\u02db" >> >>,
      << "ograve", << "\\xf2" >> >>, << "ograve;", << "\\xf2" >> >>,
      << "ogt;", << "\\u29c1" >> >>, << "ohbar;", << "\\u29b5" >> >>,
      << "ohm;", << "\\u03a9" >> >>, << "oint;", << "\\u222e" >> >>,
      << "olarr;", << "\\u21ba" >> >>, << "olcir;", << "\\u29be" >> >>,
      << "olcross;", << "\\u29bb" >> >>, << "oline;", << "\\u203e" >> >>,
      << "olt;", << "\\u29c0" >> >>, << "omacr;", << "\\u014d" >> >>,
      << "omega;", << "\\u03c9" >> >>, << "omicron;", << "\\u03bf" >> >>,
      << "omid;", << "\\u29b6" >> >>, << "ominus;", << "\\u2296" >> >>,
      << "oopf;", << "\\U0001d560" >> >>, << "opar;", << "\\u29b7" >> >>,
      << "operp;", << "\\u29b9" >> >>, << "oplus;", << "\\u2295" >> >>,
      << "or;", << "\\u2228" >> >>, << "orarr;", << "\\u21bb" >> >>,
      << "ord;", << "\\u2a5d" >> >>, << "order;", << "\\u2134" >> >>,
      << "orderof;", << "\\u2134" >> >>, << "ordf", << "\\xaa" >> >>,
      << "ordf;", << "\\xaa" >> >>, << "ordm", << "\\xba" >> >>,
      << "ordm;", << "\\xba" >> >>, << "origof;", << "\\u22b6" >> >>,
      << "oror;", << "\\u2a56" >> >>, << "orslope;", << "\\u2a57" >> >>,
      << "orv;", << "\\u2a5b" >> >>, << "oscr;", << "\\u2134" >> >>,
      << "oslash", << "\\xf8" >> >>, << "oslash;", << "\\xf8" >> >>,
      << "osol;", << "\\u2298" >> >>, << "otilde", << "\\xf5" >> >>,
      << "otilde;", << "\\xf5" >> >>, << "otimes;", << "\\u2297" >> >>,
      << "otimesas;", << "\\u2a36" >> >>, << "ouml", << "\\xf6" >> >>,
      << "ouml;", << "\\xf6" >> >>, << "ovbar;", << "\\u233d" >> >>,
      << "par;", << "\\u2225" >> >>, << "para", << "\\xb6" >> >>,
      << "para;", << "\\xb6" >> >>, << "parallel;", << "\\u2225" >> >>,
      << "parsim;", << "\\u2af3" >> >>, << "parsl;", << "\\u2afd" >> >>,
      << "part;", << "\\u2202" >> >>, << "pcy;", << "\\u043f" >> >>,
      << "percnt;", << "%" >> >>, << "period;", << "." >> >>,
      << "permil;", << "\\u2030" >> >>, << "perp;", << "\\u22a5" >> >>,
      << "pertenk;", << "\\u2031" >> >>, << "pfr;", << "\\U0001d52d" >> >>,
      << "phi;", << "\\u03c6" >> >>, << "phiv;", << "\\u03d5" >> >>,
      << "phmmat;", << "\\u2133" >> >>, << "phone;", << "\\u260e" >> >>,
      << "pi;", << "\\u03c0" >> >>, << "pitchfork;", << "\\u22d4" >> >>,
      << "piv;", << "\\u03d6" >> >>, << "planck;", << "\\u210f" >> >>,
      << "planckh;", << "\\u210e" >> >>, << "plankv;", << "\\u210f" >> >>,
      << "plus;", << "+" >> >>, << "plusacir;", << "\\u2a23" >> >>,
      << "plusb;", << "\\u229e" >> >>, << "pluscir;", << "\\u2a22" >> >>,
      << "plusdo;", << "\\u2214" >> >>, << "plusdu;", << "\\u2a25" >> >>,
      << "pluse;", << "\\u2a72" >> >>, << "plusmn", << "\\xb1" >> >>,
      << "plusmn;", << "\\xb1" >> >>, << "plussim;", << "\\u2a26" >> >>,
      << "plustwo;", << "\\u2a27" >> >>, << "pm;", << "\\xb1" >> >>,
      << "pointint;", << "\\u2a15" >> >>, << "popf;", << "\\U0001d561" >> >>,
      << "pound", << "\\xa3" >> >>, << "pound;", << "\\xa3" >> >>,
      << "pr;", << "\\u227a" >> >>, << "prE;", << "\\u2ab3" >> >>,
      << "prap;", << "\\u2ab7" >> >>, << "prcue;", << "\\u227c" >> >>,
      << "pre;", << "\\u2aaf" >> >>, << "prec;", << "\\u227a" >> >>,
      << "precapprox;", << "\\u2ab7" >> >>,
      << "preccurlyeq;", << "\\u227c" >> >>,
      << "preceq;", << "\\u2aaf" >> >>,
      << "precnapprox;", << "\\u2ab9" >> >>,
      << "precneqq;", << "\\u2ab5" >> >>, << "precnsim;", << "\\u22e8" >> >>,
      << "precsim;", << "\\u227e" >> >>, << "prime;", << "\\u2032" >> >>,
      << "primes;", << "\\u2119" >> >>, << "prnE;", << "\\u2ab5" >> >>,
      << "prnap;", << "\\u2ab9" >> >>, << "prnsim;", << "\\u22e8" >> >>,
      << "prod;", << "\\u220f" >> >>, << "profalar;", << "\\u232e" >> >>,
      << "profline;", << "\\u2312" >> >>, << "profsurf;", << "\\u2313" >> >>,
      << "prop;", << "\\u221d" >> >>, << "propto;", << "\\u221d" >> >>,
      << "prsim;", << "\\u227e" >> >>, << "prurel;", << "\\u22b0" >> >>,
      << "pscr;", << "\\U0001d4c5" >> >>, << "psi;", << "\\u03c8" >> >>,
      << "puncsp;", << "\\u2008" >> >>, << "qfr;", << "\\U0001d52e" >> >>,
      << "qint;", << "\\u2a0c" >> >>, << "qopf;", << "\\U0001d562" >> >>,
      << "qprime;", << "\\u2057" >> >>, << "qscr;", << "\\U0001d4c6" >> >>,
      << "quaternions;", << "\\u210d" >> >>,
      << "quatint;", << "\\u2a16" >> >>, << "quest;", << "?" >> >>,
      << "questeq;", << "\\u225f" >> >>, << "quot", << "\"" >> >>,
      << "quot;", << "\"" >> >>, << "rAarr;", << "\\u21db" >> >>,
      << "rArr;", << "\\u21d2" >> >>, << "rAtail;", << "\\u291c" >> >>,
      << "rBarr;", << "\\u290f" >> >>, << "rHar;", << "\\u2964" >> >>,
      << "race;", << "\\u223d", "\\u0331" >> >>,
      << "racute;", << "\\u0155" >> >>, << "radic;", << "\\u221a" >> >>,
      << "raemptyv;", << "\\u29b3" >> >>, << "rang;", << "\\u27e9" >> >>,
      << "rangd;", << "\\u2992" >> >>, << "range;", << "\\u29a5" >> >>,
      << "rangle;", << "\\u27e9" >> >>, << "raquo", << "\\xbb" >> >>,
      << "raquo;", << "\\xbb" >> >>, << "rarr;", << "\\u2192" >> >>,
      << "rarrap;", << "\\u2975" >> >>, << "rarrb;", << "\\u21e5" >> >>,
      << "rarrbfs;", << "\\u2920" >> >>, << "rarrc;", << "\\u2933" >> >>,
      << "rarrfs;", << "\\u291e" >> >>, << "rarrhk;", << "\\u21aa" >> >>,
      << "rarrlp;", << "\\u21ac" >> >>, << "rarrpl;", << "\\u2945" >> >>,
      << "rarrsim;", << "\\u2974" >> >>, << "rarrtl;", << "\\u21a3" >> >>,
      << "rarrw;", << "\\u219d" >> >>, << "ratail;", << "\\u291a" >> >>,
      << "ratio;", << "\\u2236" >> >>, << "rationals;", << "\\u211a" >> >>,
      << "rbarr;", << "\\u290d" >> >>, << "rbbrk;", << "\\u2773" >> >>,
      << "rbrace;", << "}" >> >>, << "rbrack;", << "]" >> >>,
      << "rbrke;", << "\\u298c" >> >>, << "rbrksld;", << "\\u298e" >> >>,
      << "rbrkslu;", << "\\u2990" >> >>, << "rcaron;", << "\\u0159" >> >>,
      << "rcedil;", << "\\u0157" >> >>, << "rceil;", << "\\u2309" >> >>,
      << "rcub;", << "}" >> >>, << "rcy;", << "\\u0440" >> >>,
      << "rdca;", << "\\u2937" >> >>, << "rdldhar;", << "\\u2969" >> >>,
      << "rdquo;", << "\\u201d" >> >>, << "rdquor;", << "\\u201d" >> >>,
      << "rdsh;", << "\\u21b3" >> >>, << "real;", << "\\u211c" >> >>,
      << "realine;", << "\\u211b" >> >>, << "realpart;", << "\\u211c" >> >>,
      << "reals;", << "\\u211d" >> >>, << "rect;", << "\\u25ad" >> >>,
      << "reg", << "\\xae" >> >>, << "reg;", << "\\xae" >> >>,
      << "rfisht;", << "\\u297d" >> >>, << "rfloor;", << "\\u230b" >> >>,
      << "rfr;", << "\\U0001d52f" >> >>, << "rhard;", << "\\u21c1" >> >>,
      << "rharu;", << "\\u21c0" >> >>, << "rharul;", << "\\u296c" >> >>,
      << "rho;", << "\\u03c1" >> >>, << "rhov;", << "\\u03f1" >> >>,
      << "rightarrow;", << "\\u2192" >> >>,
      << "rightarrowtail;", << "\\u21a3" >> >>,
      << "rightharpoondown;", << "\\u21c1" >> >>,
      << "rightharpoonup;", << "\\u21c0" >> >>,
      << "rightleftarrows;", << "\\u21c4" >> >>,
      << "rightleftharpoons;", << "\\u21cc" >> >>,
      << "rightrightarrows;", << "\\u21c9" >> >>,
      << "rightsquigarrow;", << "\\u219d" >> >>,
      << "rightthreetimes;", << "\\u22cc" >> >>,
      << "ring;", << "\\u02da" >> >>, << "risingdotseq;", << "\\u2253" >> >>,
      << "rlarr;", << "\\u21c4" >> >>, << "rlhar;", << "\\u21cc" >> >>,
      << "rlm;", << "\\u200f" >> >>, << "rmoust;", << "\\u23b1" >> >>,
      << "rmoustache;", << "\\u23b1" >> >>, << "rnmid;", << "\\u2aee" >> >>,
      << "roang;", << "\\u27ed" >> >>, << "roarr;", << "\\u21fe" >> >>,
      << "robrk;", << "\\u27e7" >> >>, << "ropar;", << "\\u2986" >> >>,
      << "ropf;", << "\\U0001d563" >> >>, << "roplus;", << "\\u2a2e" >> >>,
      << "rotimes;", << "\\u2a35" >> >>, << "rpar;", << ")" >> >>,
      << "rpargt;", << "\\u2994" >> >>, << "rppolint;", << "\\u2a12" >> >>,
      << "rrarr;", << "\\u21c9" >> >>, << "rsaquo;", << "\\u203a" >> >>,
      << "rscr;", << "\\U0001d4c7" >> >>, << "rsh;", << "\\u21b1" >> >>,
      << "rsqb;", << "]" >> >>, << "rsquo;", << "\\u2019" >> >>,
      << "rsquor;", << "\\u2019" >> >>, << "rthree;", << "\\u22cc" >> >>,
      << "rtimes;", << "\\u22ca" >> >>, << "rtri;", << "\\u25b9" >> >>,
      << "rtrie;", << "\\u22b5" >> >>, << "rtrif;", << "\\u25b8" >> >>,
      << "rtriltri;", << "\\u29ce" >> >>, << "ruluhar;", << "\\u2968" >> >>,
      << "rx;", << "\\u211e" >> >>, << "sacute;", << "\\u015b" >> >>,
      << "sbquo;", << "\\u201a" >> >>, << "sc;", << "\\u227b" >> >>,
      << "scE;", << "\\u2ab4" >> >>, << "scap;", << "\\u2ab8" >> >>,
      << "scaron;", << "\\u0161" >> >>, << "sccue;", << "\\u227d" >> >>,
      << "sce;", << "\\u2ab0" >> >>, << "scedil;", << "\\u015f" >> >>,
      << "scirc;", << "\\u015d" >> >>, << "scnE;", << "\\u2ab6" >> >>,
      << "scnap;", << "\\u2aba" >> >>, << "scnsim;", << "\\u22e9" >> >>,
      << "scpolint;", << "\\u2a13" >> >>, << "scsim;", << "\\u227f" >> >>,
      << "scy;", << "\\u0441" >> >>, << "sdot;", << "\\u22c5" >> >>,
      << "sdotb;", << "\\u22a1" >> >>, << "sdote;", << "\\u2a66" >> >>,
      << "seArr;", << "\\u21d8" >> >>, << "searhk;", << "\\u2925" >> >>,
      << "searr;", << "\\u2198" >> >>, << "searrow;", << "\\u2198" >> >>,
      << "sect", << "\\xa7" >> >>, << "sect;", << "\\xa7" >> >>,
      << "semi;", << ";" >> >>, << "seswar;", << "\\u2929" >> >>,
      << "setminus;", << "\\u2216" >> >>, << "setmn;", << "\\u2216" >> >>,
      << "sext;", << "\\u2736" >> >>, << "sfr;", << "\\U0001d530" >> >>,
      << "sfrown;", << "\\u2322" >> >>, << "sharp;", << "\\u266f" >> >>,
      << "shchcy;", << "\\u0449" >> >>, << "shcy;", << "\\u0448" >> >>,
      << "shortmid;", << "\\u2223" >> >>,
      << "shortparallel;", << "\\u2225" >> >>, << "shy", << "\\xad" >> >>,
      << "shy;", << "\\xad" >> >>, << "sigma;", << "\\u03c3" >> >>,
      << "sigmaf;", << "\\u03c2" >> >>, << "sigmav;", << "\\u03c2" >> >>,
      << "sim;", << "\\u223c" >> >>, << "simdot;", << "\\u2a6a" >> >>,
      << "sime;", << "\\u2243" >> >>, << "simeq;", << "\\u2243" >> >>,
      << "simg;", << "\\u2a9e" >> >>, << "simgE;", << "\\u2aa0" >> >>,
      << "siml;", << "\\u2a9d" >> >>, << "simlE;", << "\\u2a9f" >> >>,
      << "simne;", << "\\u2246" >> >>, << "simplus;", << "\\u2a24" >> >>,
      << "simrarr;", << "\\u2972" >> >>, << "slarr;", << "\\u2190" >> >>,
      << "smallsetminus;", << "\\u2216" >> >>,
      << "smashp;", << "\\u2a33" >> >>, << "smeparsl;", << "\\u29e4" >> >>,
      << "smid;", << "\\u2223" >> >>, << "smile;", << "\\u2323" >> >>,
      << "smt;", << "\\u2aaa" >> >>, << "smte;", << "\\u2aac" >> >>,
      << "smtes;", << "\\u2aac", "\\ufe00" >> >>,
      << "softcy;", << "\\u044c" >> >>, << "sol;", << "/" >> >>,
      << "solb;", << "\\u29c4" >> >>, << "solbar;", << "\\u233f" >> >>,
      << "sopf;", << "\\U0001d564" >> >>, << "spades;", << "\\u2660" >> >>,
      << "spadesuit;", << "\\u2660" >> >>, << "spar;", << "\\u2225" >> >>,
      << "sqcap;", << "\\u2293" >> >>,
      << "sqcaps;", << "\\u2293", "\\ufe00" >> >>,
      << "sqcup;", << "\\u2294" >> >>,
      << "sqcups;", << "\\u2294", "\\ufe00" >> >>,
      << "sqsub;", << "\\u228f" >> >>, << "sqsube;", << "\\u2291" >> >>,
      << "sqsubset;", << "\\u228f" >> >>,
      << "sqsubseteq;", << "\\u2291" >> >>, << "sqsup;", << "\\u2290" >> >>,
      << "sqsupe;", << "\\u2292" >> >>, << "sqsupset;", << "\\u2290" >> >>,
      << "sqsupseteq;", << "\\u2292" >> >>, << "squ;", << "\\u25a1" >> >>,
      << "square;", << "\\u25a1" >> >>, << "squarf;", << "\\u25aa" >> >>,
      << "squf;", << "\\u25aa" >> >>, << "srarr;", << "\\u2192" >> >>,
      << "sscr;", << "\\U0001d4c8" >> >>, << "ssetmn;", << "\\u2216" >> >>,
      << "ssmile;", << "\\u2323" >> >>, << "sstarf;", << "\\u22c6" >> >>,
      << "star;", << "\\u2606" >> >>, << "starf;", << "\\u2605" >> >>,
      << "straightepsilon;", << "\\u03f5" >> >>,
      << "straightphi;", << "\\u03d5" >> >>, << "strns;", << "\\xaf" >> >>,
      << "sub;", << "\\u2282" >> >>, << "subE;", << "\\u2ac5" >> >>,
      << "subdot;", << "\\u2abd" >> >>, << "sube;", << "\\u2286" >> >>,
      << "subedot;", << "\\u2ac3" >> >>, << "submult;", << "\\u2ac1" >> >>,
      << "subnE;", << "\\u2acb" >> >>, << "subne;", << "\\u228a" >> >>,
      << "subplus;", << "\\u2abf" >> >>, << "subrarr;", << "\\u2979" >> >>,
      << "subset;", << "\\u2282" >> >>, << "subseteq;", << "\\u2286" >> >>,
      << "subseteqq;", << "\\u2ac5" >> >>,
      << "subsetneq;", << "\\u228a" >> >>,
      << "subsetneqq;", << "\\u2acb" >> >>, << "subsim;", << "\\u2ac7" >> >>,
      << "subsub;", << "\\u2ad5" >> >>, << "subsup;", << "\\u2ad3" >> >>,
      << "succ;", << "\\u227b" >> >>, << "succapprox;", << "\\u2ab8" >> >>,
      << "succcurlyeq;", << "\\u227d" >> >>,
      << "succeq;", << "\\u2ab0" >> >>,
      << "succnapprox;", << "\\u2aba" >> >>,
      << "succneqq;", << "\\u2ab6" >> >>, << "succnsim;", << "\\u22e9" >> >>,
      << "succsim;", << "\\u227f" >> >>, << "sum;", << "\\u2211" >> >>,
      << "sung;", << "\\u266a" >> >>, << "sup1", << "\\xb9" >> >>,
      << "sup1;", << "\\xb9" >> >>, << "sup2", << "\\xb2" >> >>,
      << "sup2;", << "\\xb2" >> >>, << "sup3", << "\\xb3" >> >>,
      << "sup3;", << "\\xb3" >> >>, << "sup;", << "\\u2283" >> >>,
      << "supE;", << "\\u2ac6" >> >>, << "supdot;", << "\\u2abe" >> >>,
      << "supdsub;", << "\\u2ad8" >> >>, << "supe;", << "\\u2287" >> >>,
      << "supedot;", << "\\u2ac4" >> >>, << "suphsol;", << "\\u27c9" >> >>,
      << "suphsub;", << "\\u2ad7" >> >>, << "suplarr;", << "\\u297b" >> >>,
      << "supmult;", << "\\u2ac2" >> >>, << "supnE;", << "\\u2acc" >> >>,
      << "supne;", << "\\u228b" >> >>, << "supplus;", << "\\u2ac0" >> >>,
      << "supset;", << "\\u2283" >> >>, << "supseteq;", << "\\u2287" >> >>,
      << "supseteqq;", << "\\u2ac6" >> >>,
      << "supsetneq;", << "\\u228b" >> >>,
      << "supsetneqq;", << "\\u2acc" >> >>, << "supsim;", << "\\u2ac8" >> >>,
      << "supsub;", << "\\u2ad4" >> >>, << "supsup;", << "\\u2ad6" >> >>,
      << "swArr;", << "\\u21d9" >> >>, << "swarhk;", << "\\u2926" >> >>,
      << "swarr;", << "\\u2199" >> >>, << "swarrow;", << "\\u2199" >> >>,
      << "swnwar;", << "\\u292a" >> >>, << "szlig", << "\\xdf" >> >>,
      << "szlig;", << "\\xdf" >> >>, << "target;", << "\\u2316" >> >>,
      << "tau;", << "\\u03c4" >> >>, << "tbrk;", << "\\u23b4" >> >>,
      << "tcaron;", << "\\u0165" >> >>, << "tcedil;", << "\\u0163" >> >>,
      << "tcy;", << "\\u0442" >> >>, << "tdot;", << "\\u20db" >> >>,
      << "telrec;", << "\\u2315" >> >>, << "tfr;", << "\\U0001d531" >> >>,
      << "there4;", << "\\u2234" >> >>, << "therefore;", << "\\u2234" >> >>,
      << "theta;", << "\\u03b8" >> >>, << "thetasym;", << "\\u03d1" >> >>,
      << "thetav;", << "\\u03d1" >> >>,
      << "thickapprox;", << "\\u2248" >> >>,
      << "thicksim;", << "\\u223c" >> >>, << "thinsp;", << "\\u2009" >> >>,
      << "thkap;", << "\\u2248" >> >>, << "thksim;", << "\\u223c" >> >>,
      << "thorn", << "\\xfe" >> >>, << "thorn;", << "\\xfe" >> >>,
      << "tilde;", << "\\u02dc" >> >>, << "times", << "\\xd7" >> >>,
      << "times;", << "\\xd7" >> >>, << "timesb;", << "\\u22a0" >> >>,
      << "timesbar;", << "\\u2a31" >> >>, << "timesd;", << "\\u2a30" >> >>,
      << "tint;", << "\\u222d" >> >>, << "toea;", << "\\u2928" >> >>,
      << "top;", << "\\u22a4" >> >>, << "topbot;", << "\\u2336" >> >>,
      << "topcir;", << "\\u2af1" >> >>, << "topf;", << "\\U0001d565" >> >>,
      << "topfork;", << "\\u2ada" >> >>, << "tosa;", << "\\u2929" >> >>,
      << "tprime;", << "\\u2034" >> >>, << "trade;", << "\\u2122" >> >>,
      << "triangle;", << "\\u25b5" >> >>,
      << "triangledown;", << "\\u25bf" >> >>,
      << "triangleleft;", << "\\u25c3" >> >>,
      << "trianglelefteq;", << "\\u22b4" >> >>,
      << "triangleq;", << "\\u225c" >> >>,
      << "triangleright;", << "\\u25b9" >> >>,
      << "trianglerighteq;", << "\\u22b5" >> >>,
      << "tridot;", << "\\u25ec" >> >>, << "trie;", << "\\u225c" >> >>,
      << "triminus;", << "\\u2a3a" >> >>, << "triplus;", << "\\u2a39" >> >>,
      << "trisb;", << "\\u29cd" >> >>, << "tritime;", << "\\u2a3b" >> >>,
      << "trpezium;", << "\\u23e2" >> >>, << "tscr;", << "\\U0001d4c9" >> >>,
      << "tscy;", << "\\u0446" >> >>, << "tshcy;", << "\\u045b" >> >>,
      << "tstrok;", << "\\u0167" >> >>, << "twixt;", << "\\u226c" >> >>,
      << "twoheadleftarrow;", << "\\u219e" >> >>,
      << "twoheadrightarrow;", << "\\u21a0" >> >>,
      << "uArr;", << "\\u21d1" >> >>, << "uHar;", << "\\u2963" >> >>,
      << "uacute", << "\\xfa" >> >>, << "uacute;", << "\\xfa" >> >>,
      << "uarr;", << "\\u2191" >> >>, << "ubrcy;", << "\\u045e" >> >>,
      << "ubreve;", << "\\u016d" >> >>, << "ucirc", << "\\xfb" >> >>,
      << "ucirc;", << "\\xfb" >> >>, << "ucy;", << "\\u0443" >> >>,
      << "udarr;", << "\\u21c5" >> >>, << "udblac;", << "\\u0171" >> >>,
      << "udhar;", << "\\u296e" >> >>, << "ufisht;", << "\\u297e" >> >>,
      << "ufr;", << "\\U0001d532" >> >>, << "ugrave", << "\\xf9" >> >>,
      << "ugrave;", << "\\xf9" >> >>, << "uharl;", << "\\u21bf" >> >>,
      << "uharr;", << "\\u21be" >> >>, << "uhblk;", << "\\u2580" >> >>,
      << "ulcorn;", << "\\u231c" >> >>, << "ulcorner;", << "\\u231c" >> >>,
      << "ulcrop;", << "\\u230f" >> >>, << "ultri;", << "\\u25f8" >> >>,
      << "umacr;", << "\\u016b" >> >>, << "uml", << "\\xa8" >> >>,
      << "uml;", << "\\xa8" >> >>, << "uogon;", << "\\u0173" >> >>,
      << "uopf;", << "\\U0001d566" >> >>, << "uparrow;", << "\\u2191" >> >>,
      << "updownarrow;", << "\\u2195" >> >>,
      << "upharpoonleft;", << "\\u21bf" >> >>,
      << "upharpoonright;", << "\\u21be" >> >>,
      << "uplus;", << "\\u228e" >> >>, << "upsi;", << "\\u03c5" >> >>,
      << "upsih;", << "\\u03d2" >> >>, << "upsilon;", << "\\u03c5" >> >>,
      << "upuparrows;", << "\\u21c8" >> >>, << "urcorn;", << "\\u231d" >> >>,
      << "urcorner;", << "\\u231d" >> >>, << "urcrop;", << "\\u230e" >> >>,
      << "uring;", << "\\u016f" >> >>, << "urtri;", << "\\u25f9" >> >>,
      << "uscr;", << "\\U0001d4ca" >> >>, << "utdot;", << "\\u22f0" >> >>,
      << "utilde;", << "\\u0169" >> >>, << "utri;", << "\\u25b5" >> >>,
      << "utrif;", << "\\u25b4" >> >>, << "uuarr;", << "\\u21c8" >> >>,
      << "uuml", << "\\xfc" >> >>, << "uuml;", << "\\xfc" >> >>,
      << "uwangle;", << "\\u29a7" >> >>, << "vArr;", << "\\u21d5" >> >>,
      << "vBar;", << "\\u2ae8" >> >>, << "vBarv;", << "\\u2ae9" >> >>,
      << "vDash;", << "\\u22a8" >> >>, << "vangrt;", << "\\u299c" >> >>,
      << "varepsilon;", << "\\u03f5" >> >>,
      << "varkappa;", << "\\u03f0" >> >>,
      << "varnothing;", << "\\u2205" >> >>, << "varphi;", << "\\u03d5" >> >>,
      << "varpi;", << "\\u03d6" >> >>, << "varpropto;", << "\\u221d" >> >>,
      << "varr;", << "\\u2195" >> >>, << "varrho;", << "\\u03f1" >> >>,
      << "varsigma;", << "\\u03c2" >> >>,
      << "varsubsetneq;", << "\\u228a", "\\ufe00" >> >>,
      << "varsubsetneqq;", << "\\u2acb", "\\ufe00" >> >>,
      << "varsupsetneq;", << "\\u228b", "\\ufe00" >> >>,
      << "varsupsetneqq;", << "\\u2acc", "\\ufe00" >> >>,
      << "vartheta;", << "\\u03d1" >> >>,
      << "vartriangleleft;", << "\\u22b2" >> >>,
      << "vartriangleright;", << "\\u22b3" >> >>,
      << "vcy;", << "\\u0432" >> >>, << "vdash;", << "\\u22a2" >> >>,
      << "vee;", << "\\u2228" >> >>, << "veebar;", << "\\u22bb" >> >>,
      << "veeeq;", << "\\u225a" >> >>, << "vellip;", << "\\u22ee" >> >>,
      << "verbar;", << "|" >> >>, << "vert;", << "|" >> >>,
      << "vfr;", << "\\U0001d533" >> >>, << "vltri;", << "\\u22b2" >> >>,
      << "vnsub;", << "\\u2282", "\\u20d2" >> >>,
      << "vnsup;", << "\\u2283", "\\u20d2" >> >>,
      << "vopf;", << "\\U0001d567" >> >>, << "vprop;", << "\\u221d" >> >>,
      << "vrtri;", << "\\u22b3" >> >>, << "vscr;", << "\\U0001d4cb" >> >>,
      << "vsubnE;", << "\\u2acb", "\\ufe00" >> >>,
      << "vsubne;", << "\\u228a", "\\ufe00" >> >>,
      << "vsupnE;", << "\\u2acc", "\\ufe00" >> >>,
      << "vsupne;", << "\\u228b", "\\ufe00" >> >>,
      << "vzigzag;", << "\\u299a" >> >>, << "wcirc;", << "\\u0175" >> >>,
      << "wedbar;", << "\\u2a5f" >> >>, << "wedge;", << "\\u2227" >> >>,
      << "wedgeq;", << "\\u2259" >> >>, << "weierp;", << "\\u2118" >> >>,
      << "wfr;", << "\\U0001d534" >> >>, << "wopf;", << "\\U0001d568" >> >>,
      << "wp;", << "\\u2118" >> >>, << "wr;", << "\\u2240" >> >>,
      << "wreath;", << "\\u2240" >> >>, << "wscr;", << "\\U0001d4cc" >> >>,
      << "xcap;", << "\\u22c2" >> >>, << "xcirc;", << "\\u25ef" >> >>,
      << "xcup;", << "\\u22c3" >> >>, << "xdtri;", << "\\u25bd" >> >>,
      << "xfr;", << "\\U0001d535" >> >>, << "xhArr;", << "\\u27fa" >> >>,
      << "xharr;", << "\\u27f7" >> >>, << "xi;", << "\\u03be" >> >>,
      << "xlArr;", << "\\u27f8" >> >>, << "xlarr;", << "\\u27f5" >> >>,
      << "xmap;", << "\\u27fc" >> >>, << "xnis;", << "\\u22fb" >> >>,
      << "xodot;", << "\\u2a00" >> >>, << "xopf;", << "\\U0001d569" >> >>,
      << "xoplus;", << "\\u2a01" >> >>, << "xotime;", << "\\u2a02" >> >>,
      << "xrArr;", << "\\u27f9" >> >>, << "xrarr;", << "\\u27f6" >> >>,
      << "xscr;", << "\\U0001d4cd" >> >>, << "xsqcup;", << "\\u2a06" >> >>,
      << "xuplus;", << "\\u2a04" >> >>, << "xutri;", << "\\u25b3" >> >>,
      << "xvee;", << "\\u22c1" >> >>, << "xwedge;", << "\\u22c0" >> >>,
      << "yacute", << "\\xfd" >> >>, << "yacute;", << "\\xfd" >> >>,
      << "yacy;", << "\\u044f" >> >>, << "ycirc;", << "\\u0177" >> >>,
      << "ycy;", << "\\u044b" >> >>, << "yen", << "\\xa5" >> >>,
      << "yen;", << "\\xa5" >> >>, << "yfr;", << "\\U0001d536" >> >>,
      << "yicy;", << "\\u0457" >> >>, << "yopf;", << "\\U0001d56a" >> >>,
      << "yscr;", << "\\U0001d4ce" >> >>, << "yucy;", << "\\u044e" >> >>,
      << "yuml", << "\\xff" >> >>, << "yuml;", << "\\xff" >> >>,
      << "zacute;", << "\\u017a" >> >>, << "zcaron;", << "\\u017e" >> >>,
      << "zcy;", << "\\u0437" >> >>, << "zdot;", << "\\u017c" >> >>,
      << "zeetrf;", << "\\u2128" >> >>, << "zeta;", << "\\u03b6" >> >>,
      << "zfr;", << "\\U0001d537" >> >>, << "zhcy;", << "\\u0436" >> >>,
      << "zigrarr;", << "\\u21dd" >> >>, << "zopf;", << "\\U0001d56b" >> >>,
      << "zscr;", << "\\U0001d4cf" >> >>, << "zwj;", << "\\u200d" >> >>,
      << "zwnj;", << "\\u200c" >> >>
    }

\* html.entities.html5 as a function of the name
Html5 ==
    [ name \in { p[1] : p \in Html5Pairs } |->
        (CHOOSE p \in Html5Pairs : p[1] = name)[2] ]

\* html._invalid_charrefs: the numbers that stand for another character
InvalidCharrefPairs ==
    {
      << 0, "\\ufffd" >>, << 13, "\r" >>, << 128, "\\u20ac" >>,
      << 129, "\\x81" >>, << 130, "\\u201a" >>, << 131, "\\u0192" >>,
      << 132, "\\u201e" >>, << 133, "\\u2026" >>, << 134, "\\u2020" >>,
      << 135, "\\u2021" >>, << 136, "\\u02c6" >>, << 137, "\\u2030" >>,
      << 138, "\\u0160" >>, << 139, "\\u2039" >>, << 140, "\\u0152" >>,
      << 141, "\\x8d" >>, << 142, "\\u017d" >>, << 143, "\\x8f" >>,
      << 144, "\\x90" >>, << 145, "\\u2018" >>, << 146, "\\u2019" >>,
      << 147, "\\u201c" >>, << 148, "\\u201d" >>, << 149, "\\u2022" >>,
      << 150, "\\u2013" >>, << 151, "\\u2014" >>, << 152, "\\u02dc" >>,
      << 153, "\\u2122" >>, << 154, "\\u0161" >>, << 155, "\\u203a" >>,
      << 156, "\\u0153" >>, << 157, "\\x9d" >>, << 158, "\\u017e" >>,
      << 159, "\\u0178" >>
    }

\* html._invalid_codepoints: the numbers that stand for nothing
InvalidCodepoints ==
    (1 .. 8) \cup (14 .. 31) \cup (127 .. 159) \cup (64976 .. 65007) \cup (65534 .. 65535) \cup (131070 .. 131071) \cup (196606 .. 196607) \cup (262142 .. 262143) \cup (327678 .. 327679) \cup (393214 .. 393215) \cup (458750 .. 458751) \cup (524286 .. 524287) \cup (589822 .. 589823) \cup (655358 .. 655359) \cup (720894 .. 720895) \cup (786430 .. 786431) \cup (851966 .. 851967) \cup (917502 .. 917503) \cup (983038 .. 983039) \cup (1048574 .. 1048575) \cup (1114110 .. 1114111)
        \cup { 11 }

\* the greatest number a character has, 0x10FFFF
MaxCodepoint == 1114111

\* the characters that end the name of a character reference
CharrefStop == { "\t", "\n", "\f", " ", "<", "&", "#", ";" }

\* the value of the hexadecimal digit c, or -1
HexValue(c) ==
    LET vs == { v \in 0..15 : c = HexDigits[v + 1] }
                  \cup { v \in 10..15 : c = << "A", "B", "C", "D", "E", "F" >>[v - 9] }
    IN  IF vs = {} THEN -1 ELSE MinOf(vs)

\* the value of c as a digit to the base, or -1
DigitValue(c, radix) == IF HexValue(c) < radix THEN HexValue(c) ELSE -1

RECURSIVE NumberOf(_, _, _)
\* int(digits, radix) when it is at most MaxCodepoint, else MaxCodepoint + 1;
\* acc is the value of the digits read
NumberOf(digits, radix, acc) ==
    IF digits = << >> THEN acc
    ELSE IF acc * radix + DigitValue(Head(digits), radix) > MaxCodepoint
    THEN MaxCodepoint + 1
    ELSE NumberOf(Tail(digits), radix, acc * radix + DigitValue(Head(digits), radix))

\* the number of digits to the base at the head of s
DigitRun(s, radix) ==
    MaxOf({ n \in 0..Len(s) : \A x \in 1..n : DigitValue(s[x], radix) # -1 })

\* html._replace_charref for a numeric reference with the number num
NumericCharref(num) ==
    IF \E p \in InvalidCharrefPairs : p[1] = num
    THEN << (CHOOSE p \in InvalidCharrefPairs : p[1] = num)[2] >>
    ELSE IF (num >= 55296 /\ num <= 57343) \/ num > MaxCodepoint THEN << "\\ufffd" >>
    ELSE IF num \in InvalidCodepoints THEN << >>
    ELSE << Chr(num) >>

\* html._replace_charref for a named reference s (without the '&')
replace_charref(s) ==
    IF Join(s) \in DOMAIN Html5 THEN Html5[Join(s)]
    ELSE LET xs == { x \in 2..(Len(s) - 1) : Join(SubSeq(s, 1, x)) \in DOMAIN Html5 }
         IN  IF xs = {} THEN << "&" >> \o s
             ELSE Html5[Join(SubSeq(s, 1, MaxOf(xs)))]
                  \o SubSeq(s, MaxOf(xs) + 1, Len(s))

\* the match of html._charref at the '&' before t: [len, val], the length of
\* what follows the '&' in the match and what replaces the match; len is 0
\* when there is no match.  The alternatives are #[0-9]+;? then
\* #[xX][0-9a-fA-F]+;? then [^\t\n\f <&#;]{1,32};?
CharrefAt(t) ==
    LET semi(n) == IF n < Len(t) /\ t[n + 1] = ";" THEN n + 1 ELSE n
        dec == IF t # << >> /\ t[1] = "#" THEN DigitRun(Tail(t), 10) ELSE 0
        hex == IF Len(t) >= 2 /\ t[1] = "#" /\ t[2] \in { "x", "X" }
               THEN DigitRun(SubSeq(t, 3, Len(t)), 16) ELSE 0
        name == MaxOf({ n \in 0..Len(t) :
                          /\ n <= 32
                          /\ \A x \in 1..n : t[x] \notin CharrefStop })
    IN  IF dec > 0
        THEN [len |-> semi(1 + dec),
              val |-> NumericCharref(NumberOf(SubSeq(t, 2, 1 + dec), 10, 0))]
        ELSE IF hex > 0
        THEN [len |-> semi(2 + hex),
              val |-> NumericCharref(NumberOf(SubSeq(t, 3, 2 + hex), 16, 0))]
        ELSE IF name > 0
        THEN [len |-> semi(name), val |-> replace_charref(SubSeq(t, 1, semi(name)))]
        ELSE [len |-> 0, val |-> << >>]

RECURSIVE unescape(_)
\* html.unescape(s)
unescape(s) ==
    IF s = << >> THEN << >>
    ELSE IF Head(s) # "&" \/ CharrefAt(Tail(s)).len = 0
    THEN << Head(s) >> \o unescape(Tail(s))
    ELSE CharrefAt(Tail(s)).val
             \o unescape(SubSeq(s, CharrefAt(Tail(s)).len + 2, Len(s)))

extract_text_from_element(element_html) == Strip(unescape(StripTags(element_html)))

\* ------------------------------------------------------------------------
\* highlight_changed_elements: extraction, matching, substitution
\* ------------------------------------------------------------------------

BLOCKQUOTE == << "b", "l", "o", "c", "k", "q", "u", "o", "t", "e" >>

\* the length of the tag name (?:p|h[1-6]|li|blockquote) found at position n,
\* or 0 when none of the alternatives matches there
ComparableNameAt(s, n) ==
    IF StartsAt(s, << "p" >>, n) THEN 1
    ELSE IF n + 2 <= Len(s) /\ s[n + 1] = "h"
            /\ s[n + 2] \in { "1", "2", "3", "4", "5", "6" } THEN 2
    ELSE IF StartsAt(s, << "l", "i" >>, n) THEN 2
    ELSE IF StartsAt(s, BLOCKQUOTE, n) THEN Len(BLOCKQUOTE)
    ELSE 0

\* the end of a closing tag </(?:p|h[1-6]|li|blockquote)> that starts at e, or -1
CloserEndAt(s, e) ==
    LET n == ComparableNameAt(s, e + 2)
    IN  IF StartsAt(s, << "<", "/" >>, e) /\ n > 0 /\ StartsAt(s, GT, e + 2 + n)
        THEN e + 2 + n + 1 ELSE -1

\* COMPARABLE_ELEMENTS pattern tried at position i: the span of the element
\* that starts there (open tag up to its first '>', then up to the first
\* closing tag of any comparable kind), or NoSpan
ElementSpanAt(s, i) ==
    LET n == ComparableNameAt(s, i + 1)
        g == IF StartsAt(s, LT, i) /\ n > 0 THEN Find(s, GT, i + 1 + n) ELSE -1
        closers == IF g = -1 THEN {}
                   ELSE { e \in (g + 1)..Len(s) : CloserEndAt(s, e) # -1 }
    IN  IF closers = {} THEN NoSpan
        ELSE [start |-> i, end |-> CloserEndAt(s, MinOf(closers))]

RECURSIVE ElementSpans(_, _)
\* re.findall(element_pattern, content, re.DOTALL): the spans of the
\* successive non-overlapping matches from position from on
ElementSpans(s, from) ==
    LET starts == { i \in from..Len(s) : ElementSpanAt(s, i) # NoSpan }
    IN  IF starts = {} THEN << >>
        ELSE LET sp == ElementSpanAt(s, MinOf(starts))
             IN  << sp >> \o ElementSpans(s, sp.end)

\* re.match(r'(<[^>]+>)(.*)(</[^>]+>)', new_elem, re.DOTALL): the three groups;
\* .* is greedy, so the close tag is the last one in the element
TagMatch(e) ==
    LET g == Find(e, GT, 2)
        closes == IF ~StartsAt(e, LT, 0) \/ g = -1 \/ e[2] = ">" THEN {}
                  ELSE { c \in (g + 1)..Len(e) :
                           /\ StartsAt(e, << "<", "/" >>, c)
                           /\ c + 2 < Len(e) /\ e[c + 3] # ">"
                           /\ Find(e, GT, c + 3) # -1 }
    IN  IF closes = {} THEN [ok |-> FALSE, open_tag |-> << >>,
                             inner_content |-> << >>, close_tag |-> << >>]
        ELSE LET c == MaxOf(closes)
             IN  [ok |-> TRUE,
                  open_tag |-> Slice(e, 0, g + 1),
                  inner_content |-> Slice(e, g + 1, c),
                  close_tag |-> Slice(e, c, Find(e, GT, c + 3) + 1)]

\* ASCII letters, and the template escapes among them
AsciiLetters ==
    { "a", "b", "c", "d", "e", "f", "g", "h", "i", "j", "k", "l", "m",
      "n", "o", "p", "q", "r", "s", "t", "u", "v", "w", "x", "y", "z",
      "A", "B", "C", "D", "E", "F", "G", "H", "I", "J", "K", "L", "M",
      "N", "O", "P", "Q", "R", "S", "T", "U", "V", "W", "X", "Y", "Z" }

Digits == { "0", "1", "2", "3", "4", "5", "6", "7", "8", "9" }

OctDigits == { "0", "1", "2", "3", "4", "5", "6", "7" }

\* the digits int() reads as 0: the decimal digits of value 0 of every script
ZeroDigits ==
    {
      "0", "\\u0660", "\\u06f0", "\\u07c0", "\\u0966", "\\u09e6", "\\u0a66",
      "\\u0ae6", "\\u0b66", "\\u0be6", "\\u0c66", "\\u0ce6", "\\u0d66",
      "\\u0de6", "\\u0e50", "\\u0ed0", "\\u0f20", "\\u1040", "\\u1090",
      "\\u17e0", "\\u1810", "\\u1946", "\\u19d0", "\\u1a80", "\\u1a90",
      "\\u1b50", "\\u1bb0", "\\u1c40", "\\u1c50", "\\ua620", "\\ua8d0",
      "\\ua900", "\\ua9d0", "\\ua9f0", "\\uaa50", "\\uabf0", "\\uff10",
      "\\U000104a0", "\\U00010d30", "\\U00011066", "\\U000110f0",
      "\\U00011136", "\\U000111d0", "\\U000112f0", "\\U00011450",
      "\\U000114d0", "\\U00011650", "\\U000116c0", "\\U00011730",
      "\\U000118e0", "\\U00011950", "\\U00011c50", "\\U00011d50",
      "\\U00011da0", "\\U00016a60", "\\U00016ac0", "\\U00016b50",
      "\\U0001d7ce", "\\U0001d7d8", "\\U0001d7e2", "\\U0001d7ec",
      "\\U0001d7f6", "\\U0001e140", "\\U0001e2f0", "\\U0001e950",
      "\\U0001fbf0"
    }

\* the character a template escape \x stands for
TemplateEscape(c) ==
    CASE c = "a" -> Chr(7)  [] c = "b" -> Chr(8)  [] c = "f" -> "\f"
      [] c = "n" -> "\n"    [] c = "r" -> "\r"    [] c = "t" -> "\t"
      [] c = "v" -> Chr(11) [] c = "\\" -> "\\"

RECURSIVE ZeroRun(_)
\* s is digits of value 0 with single underscores between them
ZeroRun(s) ==
    /\ s # << >>
    /\ Head(s) \in ZeroDigits
    /\ \/ Len(s) = 1
       \/ ZeroRun(Tail(s))
       \/ Len(s) >= 3 /\ s[2] = "_" /\ ZeroRun(SubSeq(s, 3, Len(s)))

\* the whitespace int() drops around a number
IntSpace == Whitespace \ { "\\x1c", "\\x1d", "\\x1e", "\\x1f" }

\* int(name) = 0: int() drops the whitespace around the number and takes a
\* sign before it
IntIsZero(name) ==
    LET lead  == MaxOf({ n \in 0..Len(name) :
                           \A x \in 1..n : name[x] \in IntSpace })
        trail == MaxOf({ n \in 0..(Len(name) - lead) :
                           \A x \in 1..n : name[Len(name) + 1 - x] \in IntSpace })
        t     == SubSeq(name, lead + 1, Len(name) - trail)
    IN  ZeroRun(IF t # << >> /\ Head(t) \in { "+", "-" } THEN Tail(t) ELSE t)

\* the length of a reference \g<0>, \g<00>, \g<+0>, ... to the whole match at
\* the head of repl, or 0
WholeMatchRef(repl) ==
    LET gt == Find(repl, GT, 3)
    IN  IF StartsAt(repl, << "\\", "g", "<" >>, 0) /\ gt > 3
           /\ IntIsZero(Slice(repl, 3, gt))
        THEN gt + 1 ELSE 0

\* the number of characters of the octal escape at the head of repl (its
\* backslash included), or 0: \0, \0d, \0dd, or \ddd of a value up to 0o377
OctalEscape(repl) ==
    LET oct(n) == Len(repl) >= n /\ repl[n] \in OctDigits
    IN  IF Len(repl) < 2 \/ Head(repl) # "\\" THEN 0
        ELSE IF repl[2] = "0"
        THEN (IF oct(3) THEN (IF oct(4) THEN 4 ELSE 3) ELSE 2)
        ELSE IF oct(2) /\ oct(3) /\ oct(4) /\ repl[2] \in { "1", "2", "3" }
        THEN 4 ELSE 0

RECURSIVE ExpandTemplate(_, _)
\* what re.sub makes of a replacement string (re._parser.parse_template with
\* a pattern that has no groups): [ok, val]; ok is FALSE when it raises.  A
\* backslash before a letter is an escape, the reference \g<0> or an error;
\* before a digit it is an octal escape or a group reference (an error, the
\* pattern has no group); before anything else it is kept.
ExpandTemplate(repl, matched) ==
    IF repl = << >> THEN [ok |-> TRUE, val |-> << >>]
    ELSE IF Head(repl) # "\\"
    THEN LET r == ExpandTemplate(Tail(repl), matched)
         IN  [ok |-> r.ok, val |-> << Head(repl) >> \o r.val]
    ELSE IF Len(repl) = 1 THEN [ok |-> FALSE, val |-> << >>]
    ELSE IF WholeMatchRef(repl) > 0
    THEN LET r == ExpandTemplate(SubSeq(repl, WholeMatchRef(repl) + 1, Len(repl)),
                                 matched)
         IN  [ok |-> r.ok, val |-> matched \o r.val]
    ELSE IF OctalEscape(repl) > 0
    THEN LET r == ExpandTemplate(SubSeq(repl, OctalEscape(repl) + 1, Len(repl)),
                                 matched)
         IN  [ok |-> r.ok,
              val |-> << Chr(NumberOf(SubSeq(repl, 2, OctalEscape(repl)), 8, 0)
                             % 256) >> \o r.val]
    ELSE LET c == repl[2]
             r == ExpandTemplate(SubSeq(repl, 3, Len(repl)), matched)
         IN  IF c \in { "a", "b", "f", "n", "r", "t", "v", "\\" }
             THEN [ok |-> r.ok, val |-> << TemplateEscape(c) >> \o r.val]
             ELSE IF c \in AsciiLetters \/ c \in Digits
             THEN [ok |-> FALSE, val |-> << >>]
             ELSE [ok |-> r.ok, val |-> << "\\", c >> \o r.val]

\* re.sub(re.escape(elem), repl, html, count=1): the first occurrence of elem
\* is replaced by the expanded template; [ok, html, at, len]: the place and
\* the length of what was replaced, at = -1 when elem does not occur
SubFirst(elem, repl, html) ==
    LET t  == ExpandTemplate(repl, elem)
        at == Find(html, elem, 0)
    IN  IF ~t.ok THEN [ok |-> FALSE, html |-> html, at |-> -1, len |-> 0]
        ELSE IF at = -1 THEN [ok |-> TRUE, html |-> html, at |-> -1, len |-> 0]
        ELSE [ok |-> TRUE,
              html |-> Slice(html, 0, at) \o t.val
                       \o Slice(html, at + Len(elem), Len(html)),
              at |-> at, len |-> Len(elem)]

\* ------------------------------------------------------------------------
\* IEEE-754 double arithmetic of  int((1 - similarity) * 100)  (line 223),
\* on naturals held as little-endian sequences of 15-bit limbs
\* ------------------------------------------------------------------------

LimbBits == 15

LimbBase == 2 ^ LimbBits

\* bits of a double's significand
MantissaBits == 53

\* binary digits kept of the quotient 2*matches/length before it is rounded:
\* enough for 53 significant bits of any ratio above 2^-15
QuotientBits == 70

RECURSIVE BigNorm(_)
\* without leading zero limbs
BigNorm(a) ==
    IF a # << >> /\ a[Len(a)] = 0 THEN BigNorm(SubSeq(a, 1, Len(a) - 1)) ELSE a

RECURSIVE BigMulCarry(_, _, _)
BigMulCarry(a, m, carry) ==
    IF a = << >> THEN (IF carry = 0 THEN << >> ELSE << carry >>)
    ELSE LET v == Head(a) * m + carry
         IN  << v % LimbBase >> \o BigMulCarry(Tail(a), m, v \div LimbBase)

\* a * m for a small m
BigMulSmall(a, m) == BigNorm(BigMulCarry(a, m, 0))

RECURSIVE BigDivRem(_, _, _)
\* long division of a by a small d, from the most significant limb: [q, r]
BigDivRem(a, d, r) ==
    IF a = << >> THEN [q |-> << >>, r |-> r]
    ELSE LET v == r * LimbBase + a[Len(a)]
             rest == BigDivRem(SubSeq(a, 1, Len(a) - 1), d, v % d)
         IN  [q |-> rest.q \o << v \div d >>, r |-> rest.r]

BigDivSmall(a, d) ==
    LET x == BigDivRem(a, d, 0) IN [q |-> BigNorm(x.q), r |-> x.r]

\* a * 2^s
BigShl(a, s) ==
    BigMulSmall([ n \in 1..(s \div LimbBits) |-> 0 ] \o a, 2 ^ (s % LimbBits))

\* a \div 2^s
BigShr(a, s) ==
    LET drop == s \div LimbBits
    IN  IF drop >= Len(a) THEN << >>
        ELSE BigDivSmall(SubSeq(a, drop + 1, Len(a)), 2 ^ (s % LimbBits)).q

\* bit i of a
BigBit(a, i) ==
    IF i \div LimbBits >= Len(a) THEN 0
    ELSE (a[(i \div LimbBits) + 1] \div (2 ^ (i % LimbBits))) % 2

BigBitLen(a) ==
    LET n == BigNorm(a)
    IN  IF n = << >> THEN 0
        ELSE (Len(n) - 1) * LimbBits
             + MaxOf({ b \in 1..LimbBits : n[Len(n)] >= 2 ^ (b - 1) })

RECURSIVE BigSubBorrow(_, _, _)
BigSubBorrow(a, b, borrow) ==
    IF a = << >> THEN << >>
    ELSE LET bb == IF b = << >> THEN 0 ELSE Head(b)
             v  == Head(a) - bb - borrow
         IN  << IF v < 0 THEN v + LimbBase ELSE v >>
             \o BigSubBorrow(Tail(a), IF b = << >> THEN << >> ELSE Tail(b),
                             IF v < 0 THEN 1 ELSE 0)

\* a - b, for a >= b
BigSub(a, b) == BigNorm(BigSubBorrow(a, b, 0))

RECURSIVE BigInc(_)
BigInc(a) ==
    IF a = << >> THEN << 1 >>
    ELSE IF Head(a) + 1 < LimbBase THEN << Head(a) + 1 >> \o Tail(a)
    ELSE << 0 >> \o BigInc(Tail(a))

\* the value of a small big natural
BigToInt(a) ==
    IF Len(a) = 0 THEN 0
    ELSE IF Len(a) = 1 THEN a[1] ELSE a[1] + LimbBase * a[2]

\* round n (with bits lost below it when sticky) to 53 significant bits, half
\* to even: [m, sh] with the rounded value m * 2^sh
RoundToDouble(n, sticky) ==
    LET sh   == BigBitLen(n) - MantissaBits
        m0   == BigShr(n, sh)
        half == BigBit(n, sh - 1) = 1
        low  == sticky \/ \E i \in 0..(sh - 2) : BigBit(n, i) = 1
        up   == half /\ (low \/ BigBit(m0, 0) = 1)
    IN  IF sh <= 0 THEN [m |-> BigNorm(n), sh |-> 0]
        ELSE [m |-> IF up THEN BigInc(m0) ELSE m0, sh |-> sh]

\* int((1 - similarity) * 100) for similarity = 2.0 * matches / length given
\* as the fraction r = <<2 * matches, length>>: each of the division, the
\* subtraction and the multiplication is rounded to a double, int() truncates
ChangePct(r) ==
    IF r[1] = 0 THEN 100
    ELSE LET d    == BigDivSmall(BigShl(<< r[1] >>, QuotientBits), r[2])
             sim  == RoundToDouble(d.q, d.r # 0)
             one  == BigShl(<< 1 >>, QuotientBits)
             diff == RoundToDouble(BigSub(one, BigShl(sim.m, sim.sh)), FALSE)
             prod == RoundToDouble(BigMulSmall(diff.m, 100), FALSE)
         IN  BigToInt(BigShr(prod.m, QuotientBits - diff.sh - prod.sh))

\* SIMILARITY_THRESHOLD_MIN = 0.5 and SIMILARITY_THRESHOLD_MAX = 0.99
SIMILARITY_THRESHOLD_MIN == << 1, 2 >>

SIMILARITY_THRESHOLD_MAX == << 99, 100 >>

\* the slices of s at spans
SlicesAt(s, spans) ==
    [ n \in 1..Len(spans) |-> Slice(s, spans[n].start, spans[n].end) ]

\* re.findall(element_pattern, content, re.DOTALL)
ElementsIn(content) == SlicesAt(content, ElementSpans(content, 0))

\* lines 120-124: (text, element) for the elements with non-empty text
WithText(elems) ==
    SelectSeq([ n \in 1..Len(elems) |->
                  [text |-> extract_text_from_element(elems[n]), elem |-> elems[n]] ],
              LAMBDA x : x.text # << >>)

\* old_elem_list: (text, elem) for the old elements with non-empty text
OldElemList(old_html) == WithText(ElementsIn(extract_main_content(old_html)))

\* spans, each moved by base
Shifted(spans, base) ==
    [ n \in 1..Len(spans) |->
        [start |-> base + spans[n].start, end |-> base + spans[n].end] ]

\* the spans, in new_html, of the elements found in its main content
NewElementSpans(new_html) ==
    Shifted(ElementSpans(extract_main_content(new_html), 0), ContentSpan(new_html).start)

\* the best of the old elements not in used_old_indices when the last of
\* those with the highest ratio is taken
BestOfLast(scores, used_old_indices) ==
    LET cand == { idx \in 0..(Len(scores) - 1) :
                    idx \notin used_old_indices /\ RatioGt(scores[idx + 1], << 0, 1 >>) }
        top == { idx \in cand : \A o \in cand : ~RatioGt(scores[o + 1], scores[idx + 1]) }
    IN  IF cand = {} THEN [idx |-> -1, ratio |-> << 0, 1 >>]
        ELSE [idx |-> MaxOf(top), ratio |-> scores[MaxOf(top) + 1]]

\* the best of the old elements not in used_old_indices, given the ratio
\* scores[idx + 1] of each with the new text
BestOf(scores, used_old_indices) ==
    LET cand == { idx \in 0..(Len(scores) - 1) :
                    idx \notin used_old_indices /\ RatioGt(scores[idx + 1], << 0, 1 >>) }
        top == { idx \in cand : \A o \in cand : ~RatioGt(scores[o + 1], scores[idx + 1]) }
    IN  IF cand = {} THEN [idx |-> -1, ratio |-> << 0, 1 >>]
        ELSE [idx |-> MinOf(top), ratio |-> scores[MinOf(top) + 1]]

\* lines 139-149: the index (0-based) of the not-yet-used old element with the
\* highest ratio above 0.0, the first such among equals; -1 for None
BestMatch(old_elem_list, used_old_indices, new_text) ==
    BestOf([ n \in 1..Len(old_elem_list) |-> ratio(old_elem_list[n].text, new_text) ],
           used_old_indices)

\* which branch of lines 152-189 an element takes
Classify(best, new_text) ==
    IF new_text = << >> THEN "empty"
    ELSE IF best.idx # -1 /\ RatioGt(best.ratio, SIMILARITY_THRESHOLD_MIN)
            /\ RatioLt(best.ratio, SIMILARITY_THRESHOLD_MAX) THEN "modified"
    ELSE IF best.idx = -1 THEN "added"
    ELSE IF RatioLt(best.ratio, SIMILARITY_THRESHOLD_MAX) THEN "unrelated"
    ELSE "unchanged"

\* the element with its inner content replaced by the highlighted text
Wrapped(class, m, new_inner, old_text) ==
    IF class = "modified"
    THEN m.open_tag \o highlight_text_diff(old_text, new_inner) \o m.close_tag
    ELSE m.open_tag \o << MARK_ELEMENT_ADDED_OPEN >> \o new_inner
         \o << MARK_CLOSE >> \o m.close_tag

\* highlighted_elem of line 168 (modified) or line 184 (added)
HighlightedElem(class, new_elem, old_text) ==
    Wrapped(class, TagMatch(new_elem), extract_text_from_element(new_elem), old_text)

\* whether the branch taken replaces the element (lines 163-164, 179-180)
Marks(class, new_elem) == class \in { "modified", "added" } /\ TagMatch(new_elem).ok

\* re.sub of lines 169-173 or 185-188, when the branch taken has one
Substituted(marks, new_elem, repl, html) ==
    IF marks THEN SubFirst(new_elem, repl, html)
    ELSE [ok |-> TRUE, html |-> html, at |-> -1, len |-> 0]

\* the loop state after the pass, with what the pass decided
PassDone(st, class, best, marks, sub) ==
    [ok |-> sub.ok,
     class |-> class,
     best |-> best,
     at |-> sub.at,
     len |-> sub.len,
     st |-> [used_old_indices |->
                 IF class = "modified" THEN st.used_old_indices \cup { best.idx }
                 ELSE st.used_old_indices,
             highlighted_new_html |-> sub.html,
             changes_made |->
                 IF marks /\ sub.ok THEN st.changes_made + 1 ELSE st.changes_made]]

\* lines 152-189 for the branch class
PassAs(st, new_elem, class, best, old_text) ==
    PassDone(st, class, best, Marks(class, new_elem),
             Substituted(Marks(class, new_elem), new_elem,
                         HighlightedElem(class, new_elem, old_text),
                         st.highlighted_new_html))

\* old_text of line 153
OldText(old_elem_list, best) ==
    IF best.idx = -1 THEN << >> ELSE old_elem_list[best.idx + 1].text

\* lines 150-189 for the best match
PassWith(old_elem_list, st, new_elem, new_text, best) ==
    PassAs(st, new_elem, Classify(best, new_text), best, OldText(old_elem_list, best))

\* one pass of the loop body of lines 133-189 for new_elem, from the loop
\* state st = [used_old_indices, highlighted_new_html, changes_made]:
\* the next loop state, with what was decided; ok is FALSE when re.sub raises
ElementPass(old_elem_list, st, new_elem) ==
    PassWith(old_elem_list, st, new_elem, extract_text_from_element(new_elem),
             BestMatch(old_elem_list, st.used_old_indices,
                       extract_text_from_element(new_elem)))

RECURSIVE RunPasses(_, _, _)
RECURSIVE AfterPass(_, _, _, _)
\* the loop of lines 133-189 over the elements elems, until one raises
RunPasses(old_elem_list, st, elems) ==
    IF elems = << >> THEN [ok |-> TRUE, st |-> st]
    ELSE AfterPass(old_elem_list, st, elems, ElementPass(old_elem_list, st, Head(elems)))

\* the rest of the loop after the pass r of the first of elems
AfterPass(old_elem_list, st, elems, r) ==
    IF r.ok THEN RunPasses(old_elem_list, r.st, Tail(elems))
    ELSE [ok |-> FALSE, st |-> st]

\* the loop state before the first element (lines 127-131)
LoopStart(new_html) ==
    [used_old_indices |-> {}, highlighted_new_html |-> new_html, changes_made |-> 0]

\* new_elements: the elements of new_html that the loop visits
NewElements(new_html) == ElementsIn(extract_main_content(new_html))

\* what highlight_changed_elements returns after the loop r
Returned(r) ==
    [ok |-> r.ok, html |-> r.st.highlighted_new_html, changes |-> r.st.changes_made]

\* highlight_changed_elements(old_html, new_html):
\* [ok, html, changes]; ok is FALSE when it raises
highlight_changed_elements(old_html, new_html) ==
    IF old_html = << >> THEN [ok |-> TRUE, html |-> new_html, changes |-> 0]
    ELSE Returned(RunPasses(OldElemList(old_html), LoopStart(new_html),
                            NewElements(new_html)))

\* ------------------------------------------------------------------------
\* find_changed_sections and inject_change_notice
\* ------------------------------------------------------------------------

\* difflib.unified_diff of the lines of the two contents, lineterm='':
\* normalize_html leaves no line break, so content.split('\n') is one line,
\* the empty line for an empty content. Nothing for equal contents, else two
\* file headers, a hunk header, the old line and the new line
UnifiedDiff(old_content, new_content) ==
    IF old_content = new_content THEN << >>
    ELSE << << "-", "-", "-", " " >>, << "+", "+", "+", " " >>,
            << "@", "@", " ", "-", "1", " ", "+", "1", " ", "@", "@" >>,
            << "-" >> \o old_content, << "+" >> \o new_content >>

\* the lines that start with '+' or '-'
CountChanges(diff_lines) ==
    Cardinality({ n \in DOMAIN diff_lines : Head(diff_lines[n]) \in { "+", "-" } })

SUMMARY_THRESHOLD == << 95, 100 >>

\* lines 205-218 without the return of lines 205-206
SectionsBelowAnyThreshold(similarity, diff_lines) ==
    [diff_lines |-> IF CountChanges(diff_lines) > 0 THEN diff_lines ELSE << >>,
     similarity |-> similarity]

\* lines 205-218: None (the empty sequence, which is as falsy) above the
\* threshold or when no line of the diff starts with '+' or '-', else the diff
Sections(similarity, diff_lines) ==
    IF RatioGt(similarity, SUMMARY_THRESHOLD)
    THEN [diff_lines |-> << >>, similarity |-> similarity]
    ELSE [diff_lines |-> IF CountChanges(diff_lines) > 0 THEN diff_lines ELSE << >>,
          similarity |-> similarity]

\* lines 201-218 for the two normalized contents
Compared(old_content, new_content) ==
    Sections(ratio(old_content, new_content), UnifiedDiff(old_content, new_content))

\* find_changed_sections(old_html, new_html): (diff_lines or None,
\* similarity); (None, 0) of lines 195-196 for an empty old_html
find_changed_sections(old_html, new_html) ==
    IF old_html = << >> THEN [diff_lines |-> << >>, similarity |-> << 0, 1 >>]
    ELSE Compared(normalize_html(extract_main_content(old_html)),
                  normalize_html(extract_main_content(new_html)))

\* str(n) for n >= 0
RECURSIVE DecimalDigits(_)
DecimalDigits(n) ==
    LET d == << "0", "1", "2", "3", "4", "5", "6", "7", "8", "9" >>
    IN  IF n < 10 THEN << d[n + 1] >>
        ELSE DecimalDigits(n \div 10) \o << d[(n % 10) + 1] >>

\* the notice around the percentage, each part kept as one element (the sign
\* before " Content Changes:", which the source file holds as the characters
\* U+F8FF U+00FC U+00EE U+00E7, is written U+1F50D)
NOTICE_HEAD == "\n<div class=\"preview-content-changed-notice\">\n    <p style=\"margin: 0;\"><strong>U+1F50D Content Changes:</strong> This page has been modified in this pull request (~"

NOTICE_TAIL == "% of content changed).</p>\n</div>\n"

Notice(similarity) ==
    << NOTICE_HEAD >> \o DecimalDigits(ChangePct(similarity)) \o << NOTICE_TAIL >>

\* the opening of the banner that line 234 searches for:
\* <div class="preview-changed-banner"
BANNER_OPEN ==
    << "<", "d", "i", "v", " ", "c", "l", "a", "s", "s", "=", "\"",
       "p", "r", "e", "v", "i", "e", "w", "-", "c", "h", "a", "n",
       "g", "e", "d", "-", "b", "a", "n", "n", "e", "r", "\"" >>

\* the insertion point when the opening main tag comes before the banner in
\* the order of preference
InsertionPointMainFirst(html) ==
    LET b  == Find(html, BANNER_OPEN, 0)
        bg == IF b = -1 THEN -1 ELSE FindTagEnd(html, b + Len(BANNER_OPEN))
        be == IF bg = -1 THEN -1 ELSE Find(html, DIV_CLOSE, bg + 1)
        m  == Find(html, MAIN_OPEN, 0)
        mg == IF m = -1 THEN -1 ELSE FindTagEnd(html, m + Len(MAIN_OPEN))
    IN  IF mg # -1 THEN mg + 1
        ELSE IF be # -1 THEN be + Len(DIV_CLOSE)
        ELSE -1

\* the insertion point of lines 234-245, or -1
InsertionPoint(html) ==
    LET b  == Find(html, BANNER_OPEN, 0)
        bg == IF b = -1 THEN -1 ELSE FindTagEnd(html, b + Len(BANNER_OPEN))
        be == IF bg = -1 THEN -1 ELSE Find(html, DIV_CLOSE, bg + 1)
        m  == Find(html, MAIN_OPEN, 0)
        mg == IF m = -1 THEN -1 ELSE FindTagEnd(html, m + Len(MAIN_OPEN))
    IN  IF be # -1 THEN be + Len(DIV_CLOSE)
        ELSE IF mg # -1 THEN mg + 1
        ELSE -1

\* line 247, or line 245 when there is no insertion point
InsertedAt(html, at, notice) ==
    IF at = -1 THEN html
    ELSE Slice(html, 0, at) \o notice \o Slice(html, at, Len(html))

inject_change_notice(html, similarity) ==
    InsertedAt(html, InsertionPoint(html), Notice(similarity))

\* ------------------------------------------------------------------------
\* highlight_toc_entries (lines 251-278)
\* ------------------------------------------------------------------------

QMD == << ".", "q", "m", "d" >>

HTML == << ".", "h", "t", "m", "l" >>

A_OPEN == << "<", "a" >>

HREF_EQ == << "h", "r", "e", "f", "=", "\"" >>

\* " preview-toc-changed"
TOC_CLASS ==
    << " ", "p", "r", "e", "v", "i", "e", "w", "-", "t", "o", "c", "-",
       "c", "h", "a", "n", "g", "e", "d" >>

RECURSIVE Replace(_, _, _)
\* s.replace(old, new), old not empty
Replace(s, old, new) ==
    IF Find(s, old, 0) = -1 THEN s
    ELSE Slice(s, 0, Find(s, old, 0)) \o new
             \o Replace(Slice(s, Find(s, old, 0) + Len(old), Len(s)), old, new)

\* changed_html_files of lines 258-261
ChangedHtmlFiles(changed_files) ==
    { Replace(changed_files[n], QMD, HTML) : n \in DOMAIN changed_files }

\* the positions from lo on with no character c before them behind lo: lo
\* up to the first c
UpTo(html, c, lo) ==
    lo..(IF Find(html, << c >>, lo) = -1 THEN Len(html) ELSE Find(html, << c >>, lo))

\* the rest of the pattern of line 268 behind class=" at cp: the value up to
\* its closing quote, which ends group 1 at mid, then group 2: [^"]*" up to
\* the next quote, wherever it stands, and [^>]*> up to the next ">"
TocTail(html, cp) ==
    LET q2 == Find(html, QUOTE, cp + Len(CLASS_EQ))
        q3 == IF q2 = -1 THEN -1 ELSE Find(html, QUOTE, q2 + 1)
        g  == IF q3 = -1 THEN -1 ELSE Find(html, GT, q3 + 1)
    IN  IF g = -1 THEN [mid |-> -1, end |-> -1] ELSE [mid |-> q2 + 1, end |-> g + 1]

\* [^>]*class=" behind the closing quote of the href at q1: the last class="
\* before any ">" that the rest of the pattern matches behind, or -1
TocClassAt(html, q1) ==
    LET cps == { cp \in UpTo(html, ">", q1 + 1) :
                   /\ StartsAt(html, CLASS_EQ, cp)
                   /\ TocTail(html, cp).end # -1 }
    IN  IF q1 = -1 \/ cps = {} THEN -1 ELSE MaxOf(cps)

\* [^"]*FILE[^"]*" behind href=" ending at v: the last place of the file name
\* in the value that the rest of the pattern matches behind, or -1
TocFileAt(html, file, v) ==
    LET fps == { fp \in UpTo(html, "\"", v) :
                   /\ StartsAt(html, file, fp)
                   /\ TocClassAt(html, Find(html, QUOTE, fp + Len(file))) # -1 }
    IN  IF fps = {} THEN -1 ELSE MaxOf(fps)

\* <a[^>]*href=" at s: the last href=" before any ">" that the rest of the
\* pattern matches behind, or -1
TocHrefAt(html, file, s) ==
    LET hps == { hp \in UpTo(html, ">", s + Len(A_OPEN)) :
                   /\ StartsAt(html, HREF_EQ, hp)
                   /\ TocFileAt(html, file, hp + Len(HREF_EQ)) # -1 }
    IN  IF ~StartsAt(html, A_OPEN, s) \/ hps = {} THEN -1 ELSE MaxOf(hps)

\* the match of the pattern at s given its href=" at hp
TocMatchVia(html, file, s, hp) ==
    LET fp == TocFileAt(html, file, hp + Len(HREF_EQ))
        cp == TocClassAt(html, Find(html, QUOTE, fp + Len(file)))
    IN  [start |-> s, mid |-> TocTail(html, cp).mid, end |-> TocTail(html, cp).end]

\* the first start at or behind from where the pattern matches, or -1
TocStart(html, file, from) ==
    LET starts == { s \in from..Len(html) :
                      StartsAt(html, A_OPEN, s) /\ TocHrefAt(html, file, s) # -1 }
    IN  IF starts = {} THEN -1 ELSE MinOf(starts)

RECURSIVE TocSub(_, _, _)

\* the text from from on when the match mt is the next
TocSubMatch(html, file, from, mt) ==
    Slice(html, from, mt.mid) \o TOC_CLASS \o Slice(html, mt.mid, mt.end)
        \o TocSub(html, file, mt.end)

\* the text from from on when the next match starts at s, or there is none
TocSubFrom(html, file, from, s) ==
    IF s = -1 THEN Slice(html, from, Len(html))
    ELSE TocSubMatch(html, file, from,
                     TocMatchVia(html, file, s, TocHrefAt(html, file, s)))

\* re.sub(pattern, add_toc_highlight_class, html) from position from on
\* (lines 268-276): each match is replaced by group 1, the class token and
\* group 2, and the search goes on behind the match
TocSub(html, file, from) == TocSubFrom(html, file, from, TocStart(html, file, from))

RECURSIVE TocLoop(_, _)
\* the loop of lines 265-276 over the files in the order the set yields them
TocLoop(html, order) ==
    IF order = << >> THEN html
    ELSE TocLoop(TocSub(html, Head(order), 0), Tail(order))

\* the orders in which a set can yield its elements
Orders(S) ==
    { o \in [1..Cardinality(S) -> S] : \A i, j \in DOMAIN o : i # j => o[i] # o[j] }

\* the values highlight_toc_entries can return
highlight_toc_entries(html, changed_files) ==
    IF changed_files = << >> THEN { html }
    ELSE { TocLoop(html, o) : o \in Orders(ChangedHtmlFiles(changed_files)) }

\* the pieces of markup kept as one element, each with its characters
Spelling ==
    {
      << MARK_CHANGED_OPEN,
        << "<", "m", "a", "r", "k", " ", "c", "l", "a", "s", "s", "=", "\"",
           "p", "r", "e", "v", "i", "e", "w", "-", "t", "e", "x", "t", "-",
           "c", "h", "a", "n", "g", "e", "d", "\"", " ", "t", "i", "t", "l",
           "e", "=", "\"", "M", "o", "d", "i", "f", "i", "e", "d", " ", "f",
           "r", "o", "m", ":", " " >> >>,
      << MARK_CHANGED_MID,
        << "\"", ">" >> >>,
      << MARK_TEXT_ADDED_OPEN,
        << "<", "m", "a", "r", "k", " ", "c", "l", "a", "s", "s", "=", "\"",
           "p", "r", "e", "v", "i", "e", "w", "-", "t", "e", "x", "t", "-",
           "a", "d", "d", "e", "d", "\"", ">" >> >>,
      << MARK_ELEMENT_ADDED_OPEN,
        << "<", "m", "a", "r", "k", " ", "c", "l", "a", "s", "s", "=", "\"",
           "p", "r", "e", "v", "i", "e", "w", "-", "e", "l", "e", "m", "e",
           "n", "t", "-", "a", "d", "d", "e", "d", "\"", ">" >> >>,
      << MARK_CLOSE,
        << "<", "/", "m", "a", "r", "k", ">" >> >>,
      << NOTICE_HEAD,
        << "\n", "<", "d", "i", "v", " ", "c", "l", "a", "s", "s", "=", "\"",
           "p", "r", "e", "v", "i", "e", "w", "-", "c", "o", "n", "t", "e",
           "n", "t", "-", "c", "h", "a", "n", "g", "e", "d", "-", "n", "o",
           "t", "i", "c", "e", "\"", ">", "\n", " ", " ", " ", " ", "<", "p",
           " ", "s", "t", "y", "l", "e", "=", "\"", "m", "a", "r", "g", "i",
           "n", ":", " ", "0", ";", "\"", ">", "<", "s", "t", "r", "o", "n",
           "g", ">", "\\uf8ff", "\\xfc", "\\xee", "\\xe7", " ", "C", "o",
           "n", "t", "e", "n", "t", " ", "C", "h", "a", "n", "g", "e", "s",
           ":", "<", "/", "s", "t", "r", "o", "n", "g", ">", " ", "T", "h",
           "i", "s", " ", "p", "a", "g", "e", " ", "h", "a", "s", " ", "b",
           "e", "e", "n", " ", "m", "o", "d", "i", "f", "i", "e", "d", " ",
           "i", "n", " ", "t", "h", "i", "s", " ", "p", "u", "l", "l", " ",
           "r", "e", "q", "u", "e", "s", "t", " ", "(", "~" >> >>,
      << NOTICE_TAIL,
        << "%", " ", "o", "f", " ", "c", "o", "n", "t", "e", "n", "t", " ",
           "c", "h", "a", "n", "g", "e", "d", ")", ".", "<", "/", "p", ">",
           "\n", "<", "/", "d", "i", "v", ">", "\n" >> >>
    }

\* the pieces of markup kept as one element
Pieces == { p[1] : p \in Spelling }

RECURSIVE Spelled(_)
\* html character by character
Spelled(html) ==
    LET kept == { i \in DOMAIN html : html[i] \in Pieces }
    IN  IF kept = {} THEN html
        ELSE SubSeq(html, 1, MinOf(kept) - 1)
                 \o (CHOOSE p \in Spelling : p[1] = html[MinOf(kept)])[2]
                 \o Spelled(SubSeq(html, MinOf(kept) + 1, Len(html)))

RECURSIVE UniversalNewlines(_)
\* what read() returns of a file opened in text mode that holds s (lines
\* 37-38, 285-286, 419-420; lines 13-14 of inject-preview-metadata.py):
\* "\r\n" and "\r" are read as "\n"
UniversalNewlines(s) ==
    LET cr == Find(s, << "\r" >>, 0)
    IN  IF cr = -1 THEN s
        ELSE Slice(s, 0, cr) \o << "\n" >>
                 \o UniversalNewlines(Slice(s, IF StartsAt(s, << "\n" >>, cr + 1)
                                               THEN cr + 2 ELSE cr + 1, Len(s)))

\* lines 421-428 for a page that holds text and was read as html: the texts
\* the page can hold after them, text itself when highlight_toc_entries
\* returns what was read
TocPageRead(text, html, changed_files) ==
    { IF highlighted_html # html THEN highlighted_html ELSE text :
        highlighted_html \in highlight_toc_entries(html, changed_files) }

\* one pass of the loop of line 417 (lines 418-429) for a page that holds
\* text
TocPage(text, changed_files) ==
    TocPageRead(text, UniversalNewlines(Spelled(text)), changed_files)

RECURSIVE TocPass(_, _, _)
\* the loop of line 417 over pages, which hold texts: what the pages can
\* hold after it
TocPass(pages, texts, changed_files) ==
    IF pages = {} THEN { << >> }
    ELSE { (page :> after) @@ rest :
             page \in { CHOOSE p \in pages : TRUE },
             after \in TocPage(texts[CHOOSE p \in pages : TRUE], changed_files),
             rest \in TocPass(pages \ { CHOOSE p \in pages : TRUE }, texts,
                              changed_files) }

\* ------------------------------------------------------------------------
\* process_file
\* ------------------------------------------------------------------------

\* what fetch_base_html returns: None (no base directory, no such file, or
\* the file cannot be read), or what it reads of a published file that holds
\* text
NoBase == [found |-> FALSE, html |-> << >>]

BaseOf(text) == [found |-> TRUE, html |-> UniversalNewlines(text)]

\* "if old_html:" - None and the empty string are both false
Truthy(base) == base.found /\ base.html # << >>

\* lines 293-315 for a local file that held local_html and was read as
\* new_html, given what find_changed_sections (fc) returned and what
\* highlight_changed_elements (hl) returns
Processed(local_html, new_html, fc, hl) ==
    IF fc.diff_lines = << >> THEN [status |-> "similar", html |-> local_html]
    ELSE IF ~hl.ok THEN [status |-> "raised", html |-> local_html]
    ELSE [status |-> "written",
          html |-> inject_change_notice(IF hl.changes > 0 THEN hl.html ELSE new_html,
                                        fc.similarity)]

\* lines 284-315 once the file is read as new_html
ProcessedAs(local_html, new_html, base) ==
    IF ~Truthy(base) THEN [status |-> "no_base", html |-> local_html]
    ELSE Processed(local_html, new_html,
                   find_changed_sections(base.html, new_html),
                   highlight_changed_elements(base.html, new_html))

\* the text process_file leaves in a local file that held local_html, and
\* how it ended:
\*   "no_base"   line 317, nothing written
\*   "similar"   line 315, nothing written
\*   "written"   lines 300-313
\*   "raised"    an exception left process_file, nothing written
process_file(local_html, base) ==
    ProcessedAs(local_html, UniversalNewlines(local_html), base)

\* ------------------------------------------------------------------------
\* The documents of a run
\* ------------------------------------------------------------------------

\* the longest sequence of elements in the main region of a new page, and
\* the longest old text handed to highlight_text_diff on its own (the new
\* text is shorter by one at least)
MaxNewElems == 3

MaxTextLen == 5

Elem(tag, inner) == LT \o tag \o GT \o inner \o LT \o << "/" >> \o tag \o GT

\* <p>a b</p>
ElemAB == Elem(<< "p" >>, << "a", " ", "b" >>)

\* <p>a c b</p>: ratio 0.75 with "a b"
ElemACB == Elem(<< "p" >>, << "a", " ", "c", " ", "b" >>)

\* <li>c</li>: ratio 1/3 with "a c b", 0.0 with "a b"
ElemC == Elem(<< "l", "i" >>, << "c" >>)

\* <p>\q</p>: its text is no valid re.sub replacement template
ElemQ == Elem(<< "p" >>, << "\\", "q" >>)

\* <p> </p>: no text
ElemBlank == Elem(<< "p" >>, << " " >>)

\* <li>c <p>a b</p></li>: the element pattern stops at the first closing tag,
\* so the element is <li>c <p>a b</p>, with the text "c a b"
ElemNest == Elem(<< "l", "i" >>, << "c", " " >> \o ElemAB)

NewPool == { ElemAB, ElemACB, ElemC, ElemQ }

\* the concatenations of at most n elements of pool
Bodies(pool, n) ==
    { Concat(f) : f \in UNION { [1..m -> pool] : m \in 0..n } }

\* the name of a chapter: c.qmd, c.html
FileName(c, ext) == << c >> \o ext

\* <a href="x.html" class="n">: a link of the navigation to file
NavLink(file) ==
    A_OPEN \o << " " >> \o HREF_EQ \o file \o QUOTE \o << " " >> \o CLASS_EQ
        \o << "n" >> \o QUOTE \o GT

\* <a class="n" href="x.html">
NavLinkClassFirst(file) ==
    A_OPEN \o << " " >> \o CLASS_EQ \o << "n" >> \o QUOTE \o << " " >> \o HREF_EQ
        \o file \o QUOTE \o GT

\* <b class="m">t</b></a>: what a link holds
LinkText == << "<", "b", " " >> \o CLASS_EQ \o << "m" >> \o QUOTE \o GT
                \o << "t", "<", "/", "b", ">", "<", "/", "a", ">" >>

\* the body as the main region of a page
InMain(body) == MAIN_OPEN \o GT \o body \o MAIN_CLOSE

\* the same, after a paragraph of the page header that reads like one of the
\* main region
WithCopy(body) == ElemAB \o InMain(body)

\* the same, after the banner of a changed page
WithBanner(body) == BANNER_OPEN \o GT \o << "x" >> \o DIV_CLOSE \o InMain(body)

\* the same, after a link of the navigation to file
WithLink(file, body) == NavLink(file) \o LinkText \o InMain(body)

CRLF == << "\r", "\n" >>

\* the text a local file can hold when process_file reads it: a main region,
\* with a header paragraph, a banner or a link of the navigation before it,
\* or no container at all; lines that end with "\r\n"
NewDocs ==
    { InMain(b) : b \in Bodies(NewPool, MaxNewElems) }
        \cup { InMain(ElemBlank \o ElemAB), InMain(ElemNest \o ElemAB) }
        \cup { WithCopy(b) : b \in Bodies({ ElemAB }, MaxNewElems - 1) }
        \cup { WithBanner(b) : b \in Bodies(NewPool, MaxNewElems - 2) }
        \cup Bodies(NewPool, MaxNewElems - 2)
        \cup { WithLink(FileName("b", HTML), ElemACB),
               InMain(ElemAB \o CRLF \o ElemC \o CRLF) }

\* the text the second changed page can hold: a main region of lines that
\* end with "\r\n", with or without a link of the navigation to the first
\* changed page before it
SecondDocs ==
    { InMain(ElemAB \o CRLF \o ElemACB \o CRLF),
      NavLink(FileName("a", HTML)) \o LinkText \o CRLF \o InMain(ElemACB) }

\* the text a page of HTML_DIR that did not change can hold: the links of
\* the navigation, or none
OtherDocs ==
    { NavLink(FileName("a", HTML)) \o LinkText \o CRLF
          \o NavLinkClassFirst(FileName("b", HTML)) \o LinkText,
      InMain(ElemAB) \o CRLF }

\* the main regions of the published pages
OldBodies ==
    { << >>, ElemAB, ElemACB, ElemNest, ElemBlank, ElemAB \o ElemAB }

\* what fetch_base_html returned (see process_file below for NoBase, BaseOf)
Bases ==
    { NoBase, BaseOf(<< >>) } \cup { BaseOf(InMain(b)) : b \in OldBodies }

\* changed_qmd_files of main() (lines 392-396)
changed_qmd_files == << FileName("a", QMD), FileName("b", QMD) >>

\* html_files of main() (lines 391-402): the pages of the changed chapters,
\* which all exist, in the order they are processed
html_files ==
    [ n \in DOMAIN changed_qmd_files |-> Replace(changed_qmd_files[n], QMD, HTML) ]

\* all_html_files of main() (line 415): the pages of HTML_DIR, those of the
\* changed chapters and one more
all_html_files == Range(html_files) \cup { FileName("i", HTML) }

\* what the pages that main() reads for the first time in the loop of line
\* 417 can hold after it
OtherPagesAfter ==
    UNION { TocPass(all_html_files \ Range(html_files), texts, changed_qmd_files) :
              texts \in [ all_html_files \ Range(html_files) -> OtherDocs ] }

\* the texts each page of html_files can hold, and what fetch_base_html can
\* return for it
LocalDocs == << NewDocs, SecondDocs >>

LocalBases == << Bases, { NoBase, BaseOf(InMain(ElemAB)) } >>

\* ------------------------------------------------------------------------
\* State
\* ------------------------------------------------------------------------

VARIABLES
    pc,                   \* where main() is: "main" at the head of the loop of
                          \* line 410, "elements" inside the loop of line 133,
                          \* "processed" when process_file has returned, "toc"
                          \* at the loop of line 417, "aborted" when an
                          \* exception has left main(), "done"
    file_no,              \* the position in html_files of the file at hand
    site,                 \* the text of each page of HTML_DIR that main() is
                          \* done with: in the loop of line 410 until that loop
                          \* is over, then in the loop of line 417 (a page
                          \* that loop wrote is held character by character)
    local_html,           \* the text the local file held when process_file
                          \* opened it
    new_html,             \* what process_file read from the local file
    base,                 \* what fetch_base_html returned
    similarity,           \* similarity of find_changed_sections
    status,               \* how process_file went for the file at hand
    file_text,            \* the text the local file holds while process_file
                          \* works on it and when process_file is done
    old_elem_list,        \* the locals of highlight_changed_elements
    new_elements,
    k,                    \* the position in new_elements of the next element
    used_old_indices,
    highlighted_new_html,
    changes_made,
    log,                  \* what each pass of the loop decided
    occ,                  \* where each new element stands in the working text
    old_text,             \* the arguments and the result of a call of
    new_text,             \* highlight_text_diff on its own
    marked,
    call_fn,              \* the function called on its own on a text
    call_arg,             \* its second argument
    call_in,              \* the text before the last call
    call_out,             \* the text now
    call_runs             \* the number of calls so far

vars == << pc, file_no, site,
           local_html, new_html, base, similarity, status, file_text,
           old_elem_list, new_elements, k, used_old_indices,
           highlighted_new_html, changes_made, log, occ,
           old_text, new_text, marked,
           call_fn, call_arg, call_in, call_out, call_runs >>

file_vars == << local_html, new_html, base, similarity, status, file_text >>

loop_vars == << old_elem_list, new_elements, k, used_old_indices,
                highlighted_new_html, changes_made, log, occ >>

text_vars == << old_text, new_text, marked >>

call_vars == << call_fn, call_arg, call_in, call_out, call_runs >>

\* no function called on its own
CallIdle ==
    /\ call_fn = "none"
    /\ call_arg = << >>
    /\ call_in = << >>
    /\ call_out = << >>
    /\ call_runs = 0

\* no similarity computed
NoSimilarity == << 0, 1 >>

\* no page read yet
SiteStart == site = << >>

\* nothing read yet for the file at hand
FileStart ==
    /\ local_html = << >>
    /\ new_html = << >>
    /\ base = NoBase
    /\ similarity = NoSimilarity
    /\ status = "none"
    /\ file_text = << >>

\* highlight_changed_elements not entered
LoopIdle ==
    /\ old_elem_list = << >>
    /\ new_elements = << >>
    /\ k = 1
    /\ used_old_indices = {}
    /\ highlighted_new_html = << >>
    /\ changes_made = 0
    /\ log = << >>
    /\ occ = << >>

Init ==
    /\ pc = "main"
    /\ file_no = 1
    /\ SiteStart
    /\ FileStart
    /\ LoopIdle
    /\ old_text = << >>
    /\ new_text = << >>
    /\ marked = << >>
    /\ CallIdle

\* ------------------------------------------------------------------------
\* Where the elements stand in the working text
\* ------------------------------------------------------------------------

\* an element's place after len characters at position at were replaced by
\* len + delta characters: hits counts the replacements of the element's own
\* span, inner those of a part of it
Moved(o, at, len, delta) ==
    IF at = -1 THEN o
    ELSE IF len > 0 /\ at = o.start /\ at + len = o.end
    THEN [o EXCEPT !.end = o.end + delta, !.hits = o.hits + 1]
    ELSE IF at + len <= o.start
    THEN [o EXCEPT !.start = o.start + delta, !.end = o.end + delta]
    ELSE IF at >= o.end THEN o
    ELSE [o EXCEPT !.end = o.end + delta, !.inner = o.inner + 1]

Relocate(places, at, len, delta) ==
    [ n \in DOMAIN places |-> Moved(places[n], at, len, delta) ]

\* the places of the elements at spans before any replacement
PlacesAt(spans) ==
    [ n \in 1..Len(spans) |->
        [start |-> spans[n].start, end |-> spans[n].end, hits |-> 0, inner |-> 0] ]

Places(html) == PlacesAt(NewElementSpans(html))

\* ------------------------------------------------------------------------
\* main(): the loop over html_files, and process_file step by step
\* ------------------------------------------------------------------------

\* process_file up to the call of highlight_changed_elements (lines 282-300)
\* and the head of that function (lines 101-131)
ProcessFileBegin ==
    /\ pc = "main"
    /\ \E text \in LocalDocs[file_no], b \in LocalBases[file_no] :
        \E n \in { UniversalNewlines(text) } :
        \E fc \in { find_changed_sections(b.html, n) } :
            /\ local_html' = text
            /\ new_html' = n
            /\ base' = b
            /\ file_text' = text
            /\ IF ~Truthy(b)
               THEN /\ status' = "no_base"
                    /\ similarity' = NoSimilarity
                    /\ pc' = "processed"
                    /\ UNCHANGED loop_vars
               ELSE IF fc.diff_lines = << >>
               THEN /\ status' = "similar"
                    /\ similarity' = fc.similarity
                    /\ pc' = "processed"
                    /\ UNCHANGED loop_vars
               ELSE /\ status' = "changed"
                    /\ similarity' = fc.similarity
                    /\ pc' = "elements"
                    /\ old_elem_list' = OldElemList(b.html)
                    /\ new_elements' = NewElements(n)
                    /\ k' = 1
                    /\ used_old_indices' = LoopStart(n).used_old_indices
                    /\ highlighted_new_html' = LoopStart(n).highlighted_new_html
                    /\ changes_made' = LoopStart(n).changes_made
                    /\ log' = << >>
                    /\ occ' = Places(n)
    /\ UNCHANGED << file_no, site, text_vars, call_vars >>

\* one pass of the loop of lines 133-189; an exception of re.sub leaves
\* highlight_changed_elements, process_file and main(), which catch nothing
HighlightElement ==
    /\ pc = "elements"
    /\ k <= Len(new_elements)
    /\ \E r \in { ElementPass(old_elem_list,
                              [used_old_indices |-> used_old_indices,
                               highlighted_new_html |-> highlighted_new_html,
                               changes_made |-> changes_made],
                              new_elements[k]) } :
           /\ used_old_indices' = r.st.used_old_indices
           /\ highlighted_new_html' = r.st.highlighted_new_html
           /\ changes_made' = r.st.changes_made
           /\ log' = Append(log, [class |-> r.class, best |-> r.best, ok |-> r.ok,
                                  at |-> r.at, used_before |-> used_old_indices,
                                  used_after |-> r.st.used_old_indices])
           /\ occ' = Relocate(occ, r.at, r.len,
                              Len(r.st.highlighted_new_html) - Len(highlighted_new_html))
           /\ IF r.ok
              THEN /\ k' = k + 1
                   /\ UNCHANGED << pc, status >>
              ELSE /\ pc' = "aborted"
                   /\ status' = "raised"
                   /\ UNCHANGED k
    /\ UNCHANGED << file_no, site, local_html, new_html, base, similarity,
                    file_text, old_elem_list, new_elements, text_vars, call_vars >>

\* the return of highlight_changed_elements and the rest of process_file
\* (lines 191, 302-313)
ProcessFileEnd ==
    /\ pc = "elements"
    /\ k > Len(new_elements)
    /\ \E out \in { IF changes_made > 0 THEN highlighted_new_html ELSE new_html } :
           /\ file_text' = inject_change_notice(out, similarity)
           /\ occ' = Relocate(occ, InsertionPoint(out), 0, Len(Notice(similarity)))
    /\ status' = "written"
    /\ pc' = "processed"
    /\ UNCHANGED << file_no, site, local_html, new_html, base, similarity,
                    old_elem_list, new_elements, k, used_old_indices,
                    highlighted_new_html, changes_made, log, text_vars, call_vars >>

\* the next turn of the loop of line 410
NextFile ==
    /\ pc = "processed"
    /\ file_no < Len(html_files)
    /\ file_no' = file_no + 1
    /\ site' = (html_files[file_no] :> file_text) @@ site
    /\ pc' = "main"
    /\ local_html' = << >>
    /\ new_html' = << >>
    /\ base' = NoBase
    /\ similarity' = NoSimilarity
    /\ status' = "none"
    /\ file_text' = << >>
    /\ old_elem_list' = << >>
    /\ new_elements' = << >>
    /\ k' = 1
    /\ used_old_indices' = {}
    /\ highlighted_new_html' = << >>
    /\ changes_made' = 0
    /\ log' = << >>
    /\ occ' = << >>
    /\ UNCHANGED << text_vars, call_vars >>

\* the loop of line 410 is over: the pages of HTML_DIR are listed (lines
\* 413-415)
ListPages ==
    /\ pc = "processed"
    /\ file_no = Len(html_files)
    /\ site' = (html_files[file_no] :> file_text) @@ site
    /\ pc' = "toc"
    /\ UNCHANGED << file_no, file_vars, loop_vars, text_vars, call_vars >>

\* the loop of line 417 over the pages of HTML_DIR, one of which main()
\* reads here for the first time, and the return of main()
Finish ==
    /\ pc = "toc"
    /\ site' \in { changed @@ others :
                     changed \in TocPass(Range(html_files), site, changed_qmd_files),
                     others \in OtherPagesAfter }
    /\ pc' = "done"
    /\ UNCHANGED << file_no, file_vars, loop_vars, text_vars, call_vars >>

Next ==
    \/ ProcessFileBegin
    \/ HighlightElement
    \/ ProcessFileEnd
    \/ NextFile
    \/ ListPages
    \/ Finish

Spec == Init /\ [][Next]_vars

\* ------------------------------------------------------------------------
\* highlight_text_diff on its own
\* ------------------------------------------------------------------------

\* the characters of the texts
TextChars == { "a", "&", " " }

\* the texts of at most n characters
Texts(n) == UNION { [1..m -> TextChars] : m \in 0..n }

TextInit ==
    /\ pc = "text"
    /\ file_no = 1
    /\ SiteStart
    /\ FileStart
    /\ LoopIdle
    /\ old_text \in Texts(MaxTextLen)
    /\ new_text \in Texts(MaxTextLen - 1)
    /\ marked = << >>
    /\ CallIdle

HighlightText ==
    /\ pc = "text"
    /\ marked' = highlight_text_diff(old_text, new_text)
    /\ pc' = "marked"
    /\ UNCHANGED << file_no, site, file_vars, loop_vars, old_text, new_text,
                    call_vars >>

TextNext == HighlightText

TextSpec == TextInit /\ [][TextNext]_vars

\* ------------------------------------------------------------------------
\* Matching (lines 138-154)
\* ------------------------------------------------------------------------

\* the passes whose classification rests on a pairing with an old element
Paired(n) == log[n].class \in { "unchanged", "modified" }

\* C1: no old element, by its index in old_elem_list, is the counterpart of
\* more than one new element, counting the pairings that classify an element
\* as unchanged as well as those that classify it as modified
MatchingExclusive ==
    \A m, n \in DOMAIN log :
        (m < n /\ Paired(m) /\ Paired(n)) => log[m].best.idx # log[n].best.idx

\* C2: for every new element with text, a best score above 0.5 claims the
\* old element and pairs it; a best score of at most 0.5, also when there
\* are unclaimed old elements, leaves the element unpaired and added
ThresholdDecidesPairing ==
    \A n \in DOMAIN log :
        log[n].class # "empty" =>
            IF log[n].best.idx # -1 /\ RatioGt(log[n].best.ratio, SIMILARITY_THRESHOLD_MIN)
            THEN /\ log[n].best.idx \in log[n].used_after
                 /\ Paired(n)
            ELSE log[n].class = "added"

\* ------------------------------------------------------------------------
\* No old version (lines 101-102, 291, 317)
\* ------------------------------------------------------------------------

\* process_file has returned or raised for the file at hand
Handled == pc \in { "processed", "toc", "done", "aborted" }

\* the new elements with text, each as the added branch rewrites it
AddedForms ==
    { HighlightedElem("added", e, << >>) :
        e \in { x \in Range(NewElements(new_html)) :
                  extract_text_from_element(x) # << >> } }

\* C3: when no old version is available, or the old version has no element,
\* every new element with text is classified added and stands in the
\* written document wrapped whole in the added marker
MissingBaseMarksAllAdded ==
    (Handled /\ (~base.found \/ OldElemList(base.html) = << >>)) =>
        /\ \A n \in DOMAIN log : log[n].class \in { "empty", "added" }
        /\ \A e \in AddedForms : Find(file_text, e, 0) # -1

\* ------------------------------------------------------------------------
\* The elements in the working text (lines 167-174, 183-189)
\* ------------------------------------------------------------------------

\* the text the replacements have produced so far: highlighted_new_html, and
\* the file once it is written
Working == IF status = "written" THEN file_text ELSE highlighted_new_html

\* what stands in the working text at the place of the n-th new element
Standing(n) == Slice(Working, occ[n].start, occ[n].end)

\* the n-th new element had, when its pass began, the text of an old element
\* that no pass had claimed
SameTextUnclaimed(n) ==
    \E idx \in 0..(Len(old_elem_list) - 1) :
        /\ idx \notin log[n].used_before
        /\ old_elem_list[idx + 1].text = extract_text_from_element(new_elements[n])

\* C4: a new element whose text is that of a not-yet-claimed old element,
\* wherever that one stands in the old sequence, is classified unchanged,
\* and its markup stands in the output as it was, with no marker in it
UnchangedKeepsMarkup ==
    \A n \in DOMAIN log :
        SameTextUnclaimed(n) =>
            /\ log[n].class = "unchanged"
            /\ occ[n].hits = 0
            /\ occ[n].inner = 0
            /\ Standing(n) = new_elements[n]

\* the passes that took a branch with a replacement
Highlighted(n) == log[n].class \in { "modified", "added" }

\* C6: each element classified modified or added has one replacement made
\* for it; once the loop is over and the file written, the place of each
\* such element has been replaced once, that of no element more than once,
\* and no replacement fell on a part of an element's place
EachReplacedOnce ==
    /\ \A n \in DOMAIN log : (Highlighted(n) /\ log[n].ok) => log[n].at # -1
    /\ status = "written" =>
           \A n \in DOMAIN log :
               /\ occ[n].hits = (IF Highlighted(n) THEN 1 ELSE 0)
               /\ occ[n].inner = 0

\* C7: a pass whose replacement raises leaves the loop running, or the file
\* processed: neither process_file nor main() is left by the exception
FailureIsolated ==
    (\E n \in DOMAIN log : ~log[n].ok) => pc \in { "elements", "processed", "toc", "done" }

\* ------------------------------------------------------------------------
\* highlight_text_diff (lines 65-91)
\* ------------------------------------------------------------------------

\* the marker tags
MarkerTags ==
    { MARK_CHANGED_OPEN, MARK_CHANGED_MID, MARK_TEXT_ADDED_OPEN, MARK_CLOSE }

RECURSIVE Segments(_)
\* the markup m read back as its segments, in order: a run of text outside
\* any marker ("plain"), or a marker with the text it wraps and, for a changed
\* marker, the value of its title attribute
Segments(m) ==
    IF m = << >> THEN << >>
    ELSE IF Head(m) = MARK_CHANGED_OPEN
    THEN LET mid == Find(m, << MARK_CHANGED_MID >>, 0)
             close == Find(m, << MARK_CLOSE >>, 0)
         IN  << [kind |-> "changed", title |-> Slice(m, 1, mid),
                 text |-> Slice(m, mid + 1, close)] >>
             \o Segments(Slice(m, close + 1, Len(m)))
    ELSE IF Head(m) = MARK_TEXT_ADDED_OPEN
    THEN LET close == Find(m, << MARK_CLOSE >>, 0)
         IN  << [kind |-> "added", title |-> << >>, text |-> Slice(m, 1, close)] >>
             \o Segments(Slice(m, close + 1, Len(m)))
    ELSE LET stop == MinOf({ x \in 1..Len(m) : x = Len(m) \/ m[x + 1] \in MarkerTags })
         IN  << [kind |-> "plain", title |-> << >>, text |-> Slice(m, 0, stop)] >>
             \o Segments(Slice(m, stop, Len(m)))

\* what a reader sees of the markup: the texts of its segments
Visible(m) == Concat([ n \in DOMAIN Segments(m) |-> Segments(m)[n].text ])

\* the opcodes of the word diff that keep something of new_text
Kept(ops) == SelectSeq(ops, LAMBDA op : op[1] # "delete")

\* the segment that C5 gives an opcode: the tokens of new_text of its
\* span, unwrapped for equal, in a changed marker for replace, whose title
\* stands for the tokens of old_text of its span, in an added marker for
\* insert
SegmentOf(op, old_words, new_words) ==
    [kind |-> CASE op[1] = "equal" -> "plain" [] op[1] = "replace" -> "changed"
                [] op[1] = "insert" -> "added",
     text |-> Concat(Slice(new_words, op[4], op[5])),
     old |-> IF op[1] = "replace" THEN Concat(Slice(old_words, op[2], op[3]))
             ELSE << >>]

RECURSIVE Merged(_)
\* segments with each run of plain ones made one (the equal opcodes on the
\* two sides of a delete opcode give adjacent unwrapped text)
Merged(segs) ==
    IF Len(segs) < 2 THEN segs
    ELSE IF segs[1].kind = "plain" /\ segs[2].kind = "plain"
    THEN Merged(<< [segs[1] EXCEPT !.text = @ \o segs[2].text] >>
                \o SubSeq(segs, 3, Len(segs)))
    ELSE << segs[1] >> \o Merged(Tail(segs))

\* the segments C5 gives the word diff of two texts
SegmentsWanted(old_words, new_words) ==
    Merged([ n \in DOMAIN Kept(get_opcodes(old_words, new_words)) |->
               SegmentOf(Kept(get_opcodes(old_words, new_words))[n],
                         old_words, new_words) ])

\* C5: the markup highlight_text_diff returns shows new_text and nothing
\* else once the marker tags are taken away; segment by segment it is what
\* the equal, replace and insert opcodes of the word diff give, in order:
\* the tokens of new_text of the opcode, unwrapped for equal, in a changed
\* marker for replace, whose title alone holds the tokens of old_text that
\* were replaced, and in an added marker for insert; a delete opcode
\* leaves nothing
MarkupShowsNewText ==
    pc = "marked" =>
        LET segs == Segments(marked)
            want == SegmentsWanted(Words(old_text), Words(new_text))
        IN  /\ Visible(marked) = new_text
            /\ Len(segs) = Len(want)
            /\ \A n \in DOMAIN segs :
                   /\ segs[n].kind = want[n].kind
                   /\ segs[n].text = want[n].text
                   /\ \A c \in Range(segs[n].text) : c \notin MarkerTags
                   /\ unescape(segs[n].title) = want[n].old

\* a call whose word diff has a replace, an insert and a delete opcode, the
\* replaced tokens, with a "&" among them, not being those that replace them
AllOpcodesSeen ==
    /\ pc = "marked"
    /\ \A tag \in { "replace", "insert", "delete" } :
           \E n \in DOMAIN get_opcodes(Words(old_text), Words(new_text)) :
               get_opcodes(Words(old_text), Words(new_text))[n][1] = tag
    /\ \E n \in DOMAIN Segments(marked) :
           /\ Segments(marked)[n].kind = "changed"
           /\ Segments(marked)[n].title # Segments(marked)[n].text
           /\ "&" \in Range(unescape(Segments(marked)[n].title))

\* ------------------------------------------------------------------------
\* The summary notice (lines 193-247, 291-315)
\* ------------------------------------------------------------------------

\* the similarity of the normalized main regions of the old and new version
WholeSimilarity ==
    ratio(normalize_html(extract_main_content(base.html)),
          normalize_html(extract_main_content(new_html)))

\* the file holds the summary notice
NoticeInFile == NOTICE_HEAD \in Range(file_text)

\* C8: for a page whose old version was fetched, and is not empty, the file
\* gets the summary notice exactly when the similarity of the normalized main
\* regions is at most 0.95 and the page has a place to insert it
NoticeIffBelowThreshold ==
    (Handled /\ base.found /\ base.html # << >>) =>
        (NoticeInFile <=>
            /\ ~RatioGt(WholeSimilarity, SUMMARY_THRESHOLD)
            /\ InsertionPoint(new_html) # -1)

\* what highlight_changed_elements makes of the page at hand
ElementsHighlighted == highlight_changed_elements(base.html, new_html)

\* C9 as stated: a page whose similarity is above 0.95 gets no notice, and
\* its file holds the markers of the elements classified modified or added
\* as it would at a lower similarity
HighlightingIgnoresSimilarity ==
    (Handled /\ base.found /\ base.html # << >>
        /\ RatioGt(WholeSimilarity, SUMMARY_THRESHOLD) /\ ElementsHighlighted.ok) =>
            /\ ~NoticeInFile
            /\ file_text = (IF ElementsHighlighted.changes > 0
                            THEN ElementsHighlighted.html ELSE new_html)

\* C9: for a page whose similarity is above 0.95, process_file does not enter
\* highlight_changed_elements and writes nothing: no element is classified,
\* and the file stays as it was when it was opened, with no marker and no
\* notice added
SimilarPageUntouched ==
    (status # "none" /\ base.found /\ base.html # << >>
        /\ RatioGt(WholeSimilarity, SUMMARY_THRESHOLD)) =>
            /\ status = "similar"
            /\ pc \in { "processed", "toc", "done" }
            /\ log = << >>
            /\ file_text = local_html

\* a page above 0.95 in which highlight_changed_elements, had it been
\* entered, would have replaced an element
SimilarPageWithChangedElement ==
    /\ status = "similar"
    /\ RatioGt(WholeSimilarity, SUMMARY_THRESHOLD)
    /\ ElementsHighlighted.ok
    /\ ElementsHighlighted.changes > 0
    /\ ElementsHighlighted.html # new_html

\* the digits of the notice in the file, as a number
RECURSIVE DigitsValue(_)
DigitsValue(ds) ==
    IF ds = << >> THEN 0
    ELSE 10 * DigitsValue(SubSeq(ds, 1, Len(ds) - 1))
         + (CHOOSE d \in 0..9 : DecimalDigits(d) = << ds[Len(ds)] >>)

\* the percentage the notice in the file states
StatedPct ==
    DigitsValue(Slice(file_text, Find(file_text, << NOTICE_HEAD >>, 0) + 1,
                      Find(file_text, << NOTICE_TAIL >>, 0)))

\* C10: the percentage the notice states is (1 - similarity) * 100 rounded
\* to the nearest whole number, that is, within one half of it
NoticeStatesRoundedPct ==
    NoticeInFile =>
        LET num == WholeSimilarity[2] - WholeSimilarity[1]
            den == WholeSimilarity[2]
        IN  /\ 2 * den * StatedPct <= 200 * num + den
            /\ 2 * den * StatedPct >= 200 * num - den

\* ------------------------------------------------------------------------
\* The functions called on their own
\* ------------------------------------------------------------------------

\* the most pieces a text handed to a function is put together from, and the
\* most calls of a function on the same text
MaxParts == 3

MaxRuns == 2

\* <div class="preview-changed-banner">x</div>
Banner == BANNER_OPEN \o GT \o << "x" >> \o DIV_CLOSE

\* the pieces of the pages handed to inject_change_notice: a banner, a
\* banner left open, an opening main tag, the start of one, a closing div
\* tag, a paragraph, the end of a highlight
NoticePool ==
    { Banner, BANNER_OPEN \o GT, MAIN_OPEN \o << " ", "c" >> \o GT, MAIN_OPEN,
      DIV_CLOSE, ElemAB, << MARK_CLOSE >> }

NoticeDocs == Bodies(NoticePool, MaxParts)

\* the similarities handed to inject_change_notice
NoticeSimilarities == { << 1, 2 >>, << 4, 5 >> }

\* process_file calls inject_change_notice once on a page (line 307)
InjectNotice ==
    /\ call_fn = "inject_change_notice"
    /\ call_runs = 0
    /\ call_in' = call_out
    /\ call_out' = inject_change_notice(call_out, call_arg)
    /\ call_runs' = 1
    /\ UNCHANGED << pc, file_no, site, file_vars, loop_vars, text_vars,
                    call_fn, call_arg >>



\* ------------------------------------------------------------------------
\* highlight_toc_entries called on its own
\* ------------------------------------------------------------------------

\* the pieces of the pages handed to highlight_toc_entries: links to the
\* chapters x and y and to a chapter whose name ends like x, a link with its
\* class before its href, and the text of a link
TocPool ==
    { NavLink(FileName("x", HTML)), NavLink(FileName("y", HTML)),
      NavLink(<< "a" >> \o FileName("x", HTML)),
      NavLinkClassFirst(FileName("x", HTML)), LinkText }

TocDocs == Bodies(TocPool, MaxParts)

\* changed_files of main() (lines 413-415)
ChangedFiles ==
    { << >>, << FileName("x", QMD) >>, << FileName("x", QMD), FileName("y", QMD) >> }

\* a call of highlight_toc_entries on the text the last call returned
HighlightToc ==
    /\ call_fn = "highlight_toc_entries"
    /\ call_runs < MaxRuns
    /\ call_in' = call_out
    /\ call_out' \in highlight_toc_entries(call_out, call_arg)
    /\ call_runs' = call_runs + 1
    /\ UNCHANGED << pc, file_no, site, file_vars, loop_vars, text_vars,
                    call_fn, call_arg >>

\* <!--c-->
Comment == COMMENT_OPEN \o << "c" >> \o COMMENT_CLOSE

\* the pieces of the texts handed to normalize_html: words with a space
\* behind or before them, a comment, a line end, and what is left of the
\* delimiters of a comment around another one
NormalizePool ==
    { << "a", " " >>, << " ", "a" >>, Comment, << "\n" >>,
      << "<", "!", "-" >>, << "-" >> \o COMMENT_CLOSE }

NormalizeDocs == Bodies(NormalizePool, MaxParts)

\* a call of normalize_html on the text the last call returned
NormalizeHtml ==
    /\ call_fn = "normalize_html"
    /\ call_runs < MaxRuns
    /\ call_in' = call_out
    /\ call_out' = normalize_html(call_out)
    /\ call_runs' = call_runs + 1
    /\ UNCHANGED << pc, file_no, site, file_vars, loop_vars, text_vars,
                    call_fn, call_arg >>

\* ------------------------------------------------------------------------
\* inject-preview-metadata.py: inject_preview_metadata (lines 10-45)
\* ------------------------------------------------------------------------

\* "---"
DASHES == << "-", "-", "-" >>

\* "---\n", what the file starts with when it has front matter (line 18)
FRONT_OPEN == DASHES \o << "\n" >>

\* "\n---\n", the closing delimiter searched for in line 21
FRONT_CLOSE == << "\n" >> \o DASHES \o << "\n" >>

\* "preview-changed:"
PREVIEW_KEY ==
    << "p", "r", "e", "v", "i", "e", "w", "-", "c", "h", "a", "n", "g", "e", "d", ":" >>

\* "preview-changed: true\n"
PREVIEW_LINE == PREVIEW_KEY \o << " ", "t", "r", "u", "e", "\n" >>

\* lines 25-33 given end_pos, the place in content of the closing delimiter:
\* front_matter is content[4:end_pos], without the line end before the
\* delimiter, and rest starts with the line end behind it
WithFrontMatter(content, end_pos) ==
    LET front_matter == Slice(content, Len(FRONT_OPEN), end_pos)
        rest == Slice(content, end_pos + Len(FRONT_OPEN), Len(content))
    IN  FRONT_OPEN
            \o (IF Find(front_matter, PREVIEW_KEY, 0) = -1
                THEN RStrip(front_matter) \o << "\n" >> \o PREVIEW_LINE
                ELSE front_matter)
            \o DASHES \o rest

\* what inject_preview_metadata leaves in a file that holds text: the file
\* is read in text mode (lines 13-14), so content has "\n" for every "\r\n"
\* and "\r" of the file, and new_content is written in every case (lines
\* 36 and 39 where no front matter is found)
inject_preview_metadata(text) ==
    LET content == UniversalNewlines(text)
    IN  IF StartsAt(content, FRONT_OPEN, 0)
              /\ Find(content, FRONT_CLOSE, Len(FRONT_OPEN)) # -1
        THEN WithFrontMatter(content, Find(content, FRONT_CLOSE, Len(FRONT_OPEN)))
        ELSE FRONT_OPEN \o PREVIEW_LINE \o FRONT_OPEN \o content

\* the pieces of the files handed to inject_preview_metadata: the delimiter
\* with its line end, with the line end "\r\n" and without, a line with
\* another key, the line with the key, an empty line and a line of the text
MetadataPool ==
    { FRONT_OPEN, DASHES \o CRLF, DASHES, << "t", ":", " ", "x", "\n" >>,
      PREVIEW_LINE, << "\n" >>, << "b", "\n" >> }

MetadataDocs == Bodies(MetadataPool, MaxParts)

\* a run of the script on the file as the last run left it
InjectMetadata ==
    /\ call_fn = "inject_preview_metadata"
    /\ call_runs < MaxRuns
    /\ call_in' = call_out
    /\ call_out' = inject_preview_metadata(call_out)
    /\ call_runs' = call_runs + 1
    /\ UNCHANGED << pc, file_no, site, file_vars, loop_vars, text_vars,
                    call_fn, call_arg >>

\* the text and the second argument a function is called with
CallInputs ==
    [ inject_change_notice |-> NoticeSimilarities \X NoticeDocs,
      highlight_toc_entries |-> ChangedFiles \X TocDocs,
      normalize_html |-> { << >> } \X NormalizeDocs,
      inject_preview_metadata |-> { << >> } \X MetadataDocs ]

CallInit ==
    /\ pc = "call"
    /\ file_no = 1
    /\ SiteStart
    /\ FileStart
    /\ LoopIdle
    /\ old_text = << >>
    /\ new_text = << >>
    /\ marked = << >>
    /\ call_fn \in DOMAIN CallInputs
    /\ \E input \in CallInputs[call_fn] :
           /\ call_arg = input[1]
           /\ call_in = input[2]
           /\ call_out = input[2]
    /\ call_runs = 0

CallNext ==
    \/ InjectNotice
    \/ HighlightToc
    \/ NormalizeHtml
    \/ InjectMetadata

CallSpec == CallInit /\ [][CallNext]_vars

\* ------------------------------------------------------------------------
\* The anchor of the notice (lines 232-249)
\* ------------------------------------------------------------------------

\* the positions where lit stands in html
Openings(html, lit) == { i \in 0..Len(html) : StartsAt(html, lit, i) }

\* the positions where a tag ends in html: those of a ">", be it written in
\* the page or the end of a <mark> tag put in before
TagEnds(html) == { i \in 0..(Len(html) - 1) : html[i + 1] \in TagEnd }

\* the positions right after a banner: an opening
\* <div class="preview-changed-banner", a ">" behind it and a "</div>" behind
\* that
BannerEnds(html) ==
    { d + Len(DIV_CLOSE) :
        d \in { d \in Openings(html, DIV_CLOSE) :
                  \E b \in Openings(html, BANNER_OPEN), g \in TagEnds(html) :
                      b + Len(BANNER_OPEN) <= g /\ g < d } }

\* the positions right after a ">" behind an opening "<main"
MainEnds(html) ==
    { g + 1 :
        g \in { g \in TagEnds(html) :
                  \E m \in Openings(html, MAIN_OPEN) : m + Len(MAIN_OPEN) <= g } }

\* the anchor: the end of the first banner, else the end of the first opening
\* main tag, else none
Anchor(html) ==
    IF BannerEnds(html) # {} THEN MinOf(BannerEnds(html))
    ELSE IF MainEnds(html) # {} THEN MinOf(MainEnds(html))
    ELSE -1

NoticeCalled == call_fn = "inject_change_notice" /\ call_runs = 1

\* C11: inject_change_notice puts the notice right after the banner (the
\* text from the first opening <div class="preview-changed-banner" through
\* the first </div> behind the end of that tag) when the page has one, else
\* right after the first opening main tag, else it returns the page as it
\* is; where it inserts, the result is the page with the notice at that
\* point and every other character as before
NoticeAtAnchor ==
    NoticeCalled =>
        IF Anchor(call_in) = -1 THEN call_out = call_in
        ELSE call_out = Slice(call_in, 0, Anchor(call_in)) \o Notice(call_arg)
                            \o Slice(call_in, Anchor(call_in), Len(call_in))

\* a page with a banner behind its opening main tag got the notice behind
\* the banner
NoticeAfterLaterBanner ==
    /\ NoticeCalled
    /\ BannerEnds(call_in) # {}
    /\ MainEnds(call_in) # {}
    /\ MinOf(MainEnds(call_in)) < MinOf(BannerEnds(call_in))
    /\ call_out # call_in
    /\ StartsAt(call_out, << NOTICE_HEAD >>, MinOf(BannerEnds(call_in)))

\* ------------------------------------------------------------------------
\* The links of the navigation (lines 251-278)
\* ------------------------------------------------------------------------

TocCalled(n) == call_fn = "highlight_toc_entries" /\ call_runs = n

\* C12: highlight_toc_entries called again with the same changed files on
\* the page it returned returns that page as it is: no link gets the class
\* token a second time
TocCalledTwiceAsOnce == TocCalled(2) => call_out = call_in

\* the target of the link tag: the value of its href attribute
Target(tag) ==
    LET hp == Find(tag, HREF_EQ, 0)
    IN  IF hp = -1 THEN << >>
        ELSE Slice(tag, hp + Len(HREF_EQ), Find(tag, QUOTE, hp + Len(HREF_EQ)))

\* tag is a link to one of files and has a class attribute
ChangedLink(tag, files) ==
    /\ StartsAt(tag, A_OPEN \o << " " >>, 0)
    /\ Find(tag, CLASS_EQ, 0) # -1
    /\ Target(tag) \in files

\* the tag with the class token as the last token of its class attribute
WithToken(tag) ==
    LET ce == Find(tag, QUOTE, Find(tag, CLASS_EQ, 0) + Len(CLASS_EQ))
    IN  Slice(tag, 0, ce) \o TOC_CLASS \o Slice(tag, ce, Len(tag))

RECURSIVE Annotated(_, _)
\* the page with the class token in the class attribute of each link to one
\* of files and everything else as it is
Annotated(html, files) ==
    LET lt == Find(html, LT, 0)
        gt == IF lt = -1 THEN -1 ELSE Find(html, GT, lt)
        tag == Slice(html, lt, gt + 1)
    IN  IF gt = -1 THEN html
        ELSE Slice(html, 0, lt)
                 \o (IF ChangedLink(tag, files) THEN WithToken(tag) ELSE tag)
                 \o Annotated(Slice(html, gt + 1, Len(html)), files)

\* C13: after highlight_toc_entries on a page not annotated before, each
\* link to a changed file has the class token once inside its class
\* attribute, however many such links the page has, and every link to
\* another file, like the rest of the page, is as it was
ChangedLinksCarryToken ==
    TocCalled(1) => call_out = Annotated(call_in, ChangedHtmlFiles(call_arg))

\* ------------------------------------------------------------------------
\* normalize_html (lines 57-63)
\* ------------------------------------------------------------------------

\* s holds a comment: <!-- with --> behind it
HoldsComment(s) ==
    \E i \in Openings(s, COMMENT_OPEN) :
        \E j \in Openings(s, COMMENT_CLOSE) : i + Len(COMMENT_OPEN) <= j

\* every run of whitespace of s is one space
SingleSpaced(s) ==
    \A i \in DOMAIN s :
        IsSpace(s[i]) => s[i] = " " /\ (i > 1 => ~IsSpace(s[i - 1]))

\* C14: what normalize_html returns holds no comment and no whitespace but
\* single spaces, and normalize_html returns it as it is when called on it
NormalizedIsFixed ==
    call_fn = "normalize_html" /\ call_runs > 0 =>
        /\ ~HoldsComment(call_out)
        /\ SingleSpaced(call_out)
        /\ call_runs > 1 => call_out = call_in

\* ------------------------------------------------------------------------
\* Ties between old elements (lines 139-149)
\* ------------------------------------------------------------------------

\* the ratio of old element idx with the text of new element n
ScoreOf(idx, n) ==
    ratio(old_elem_list[idx + 1].text, extract_text_from_element(new_elements[n]))

\* the old elements not yet claimed when new element n is matched that reach
\* the ratio of its best match
TiedWithBest(n) ==
    { idx \in 0..(Len(old_elem_list) - 1) :
        /\ idx \notin log[n].used_before
        /\ ~RatioGt(ScoreOf(idx, n), log[n].best.ratio)
        /\ ~RatioLt(ScoreOf(idx, n), log[n].best.ratio) }

\* C15: the old element matched with a new element is, of the not-yet-claimed
\* old elements, one with the highest ratio, and of those with that ratio
\* the one with the smallest index in the old element list
TieBrokenByPosition ==
    \A n \in DOMAIN log :
        log[n].best.idx # -1 =>
            /\ \A idx \in 0..(Len(old_elem_list) - 1) :
                   idx \notin log[n].used_before =>
                       ~RatioGt(ScoreOf(idx, n), log[n].best.ratio)
            /\ log[n].best.idx = MinOf(TiedWithBest(n))

\* two old elements not yet claimed reached the same highest ratio, below
\* 1.0, for a new element
TieSeen ==
    \E n \in DOMAIN log :
        /\ log[n].best.idx # -1
        /\ Cardinality(TiedWithBest(n)) > 1
        /\ RatioLt(log[n].best.ratio, << 1, 1 >>)

\* ------------------------------------------------------------------------
\* Outside the main region (lines 108-117, 170-173, 185-188)
\* ------------------------------------------------------------------------

\* the loop of highlight_changed_elements has visited every element and the
\* function returns highlighted_new_html
LoopDone == pc = "elements" /\ k > Len(new_elements)

\* what new_html holds before and behind the region extract_main_content
\* returns stands at the start and at the end of html
SameOutsideMain(html) ==
    LET span == ContentSpan(new_html)
        behind == Len(new_html) - span.end
    IN  /\ Len(html) >= span.start + behind
        /\ Slice(html, 0, span.start) = Slice(new_html, 0, span.start)
        /\ Slice(html, Len(html) - behind, Len(html))
               = Slice(new_html, span.end, Len(new_html))

\* C16: the page highlight_changed_elements returns differs from the new
\* page only inside the region extract_main_content returns, also when an
\* element of the region reads like markup that stands before the region
OutsideMainUntouched == LoopDone => SameOutsideMain(highlighted_new_html)

\* ------------------------------------------------------------------------
\* The front matter (inject-preview-metadata.py, lines 10-45)
\* ------------------------------------------------------------------------

\* the lines between the opening delimiter of content and the first "---"
\* that stands on a line of its own behind it, or none
FrontLines(content) ==
    LET e == Find(content, FRONT_CLOSE, Len(DASHES))
    IN  IF StartsAt(content, FRONT_OPEN, 0) /\ e # -1
        THEN { Slice(content, Len(FRONT_OPEN), e + 1) }
        ELSE {}

\* content starts with a front-matter block that holds the key
HasKey(content) ==
    \E front \in FrontLines(content) : Openings(front, PREVIEW_KEY) # {}

\* content starts with a front-matter block that holds the key once
HasKeyOnce(content) ==
    \E front \in FrontLines(content) : Cardinality(Openings(front, PREVIEW_KEY)) = 1

\* C17: inject_preview_metadata leaves a file whose front matter holds the
\* key, its own output above all, as it is, and after any number of runs
\* the file starts with one front-matter block, closed by "---" on a line of
\* its own, that holds the key once
MetadataInjectedOnce ==
    call_fn = "inject_preview_metadata" /\ call_runs > 0 =>
        /\ HasKey(call_in) => call_out = call_in
        /\ call_runs > 1 => call_out = call_in
        /\ HasKeyOnce(call_out)
====
